---- MODULE Spec2Model ----
(***************************************************************************)
(* Realtime event pipeline of the "advanced" project                       *)
(* (src/src/projects/03-advanced/app): the consumer / fan-out worker       *)
(* (worker.py), the broker topology and the Redis helpers (messaging.py),  *)
(* and the connection registry with its WebSocket endpoint (realtime.py,   *)
(* main.py).                                                               *)
(*                                                                         *)
(* Every coroutine is cut at its await points: one action is the code      *)
(* between two awaits, with the effect of the awaited call.  A Redis call  *)
(* may raise (Redis unreachable); the broker channel a delivery arrived on *)
(* is taken to work (publishes to exchanges and acks go through).          *)
(***************************************************************************)
EXTENDS Integers, Sequences, FiniteSets, TLC

\* ------------------------------------------------------------------ bounds

\* settings.rabbitmq_max_retries (config.py; 5 unless configured).
MaxRetries == 1

\* The messages that enter the primary queue, by identity (event_id).
MsgIds == {1, 2}
\* The deliveries the worker may hold unacknowledged at once, one _on_message
\* task each: set_qos(prefetch_count) with a window of two.
Slots == {1, 2}
\* Idempotency keys (correlation ids) and board ids in use.
Keys == {"k1", "k2"}
Boards == {"b1", "b2"}

\* settings.websocket_max_connections (config.py; 128 unless configured).
MaxConnections == 2
\* The events the activity channel carries when the worker is left out.
MaxEvents == 1
\* The client frames of a run, the envelopes made from them, and the publish
\* calls of the in-memory transport.
MaxFrames == 2
MaxEnvelopes == 2
MaxPublishes == 3
\* The WebSocket handler invocations (one websocket each) and the activity
\* stream requests (one listener queue each).
Conns == {"w1", "w2", "w3", "w4"}
\* The order in which the websocket requests arrive.
Arrival == [w1 |-> 1, w2 |-> 2, w3 |-> 3, w4 |-> 4]
\* The websockets that meet the relay, failed handshakes and reset.
Sockets == {"w1", "w2", "w3"}
Listeners == {"q1", "q2"}

\* status.WS_1013_TRY_AGAIN_LATER and auth.UNAUTHORIZED_CLOSE_CODE.
WS_1013_TRY_AGAIN_LATER == 1013
UNAUTHORIZED_CLOSE_CODE == 4401

VARIABLES
    primary,      \* primary queue (settings.rabbitmq_queue): ready messages, FIFO
    retry_queue,  \* retry queue: messages waiting for x-message-ttl
    dlq_queue,    \* dead-letter queue
    handler,      \* the _on_message task of each unacknowledged delivery
    marked,       \* Redis: the idempotency keys currently set, as Redis names them
    pubsub,       \* Redis: every event published on the activity channel, in order
    nextId,       \* next message identity
    hist,         \* per message: deliveries from primary, fan-out failures, successes
    windowPubs,   \* per key: pub/sub publishes since the key last expired
    firstDelivery, \* message ids in the order the broker first delivered them
    boards,       \* RealtimeBroker._boards: board id -> set of websockets
    activity_subscribers, \* RealtimeBroker._activity_subscribers: list of queues
    lock,         \* RealtimeBroker._lock: "free" or the task holding it
    ws,           \* the board_updates task of each websocket, and the socket
    bc,           \* the relay task: the broadcast it is running
    relayPos,     \* the relay subscriber: messages taken off the channel so far
    sse,          \* the activity_stream request of each listener
    queues,       \* the asyncio.Queue of each listener
    frames,       \* the BoardMessage of each client frame
    envelopes,    \* the envelopes from_message has made, each with its frame
    uuids,        \* the number of uuid4() calls so far
    publishes,    \* in-memory transport: the EventPipeline.publish calls
    received,     \* in-memory transport: the events the handler was called with
    settings,     \* Settings: event_transport and the two reconnect delays
    pipeline,     \* EventPipeline: _publisher, _subscriber, the call under way
    subscriber,   \* RedisActivitySubscriber: its fields and its listen task
    rabbit,       \* RabbitMQEventPublisher: _connection and _topology
    requests,     \* the credentials each activity_stream request carried
    database,     \* tasks service: the number of commits the tasks table has seen
    redis_cache,  \* tasks service: the Redis keys of the task cache, with their payloads
    reads,        \* tasks service: each list_tasks / get_task_statistics request
    write,        \* tasks service: the TaskService write under way
    consumer      \* BoardEventConsumer: its channel, topology, Redis and stop()

workerVars == <<primary, retry_queue, dlq_queue, handler, marked, nextId, hist,
                windowPubs, firstDelivery>>

memoryVars == <<frames, envelopes, uuids, publishes, received>>

registryVars == <<boards, activity_subscribers, lock, ws, bc, relayPos, sse, queues>>

lifecycleVars == <<settings, pipeline, subscriber, rabbit>>

requestVars == <<requests>>

cacheVars == <<database, redis_cache, reads, write>>

shutdownVars == <<consumer>>

vars == <<primary, retry_queue, dlq_queue, handler, marked, pubsub, nextId,
          hist, windowPubs, firstDelivery, registryVars, memoryVars, lifecycleVars, requestVars, cacheVars, shutdownVars>>

\* ------------------------------------------------------------ data model

\* The x-retry-count header: absent, an integer, or a value int() rejects.
Absent == [tag |-> "absent", n |-> 0]
Junk == [tag |-> "junk", n |-> 0]
Count(n) == [tag |-> "int", n |-> n]
\* The values a foreign client is taken to send: none, junk, the configured
\* maximum and one beyond it (the worker itself produces 1..MaxRetries).
RetryHeaderValues == {Absent, Junk, Count(MaxRetries), Count(MaxRetries + 1)}

\* Python's None where a str is optional.
None == "None"

\* What Python's "or" passes over: None and the empty string.
Falsy(value) == value \in {None, ""}

\* BoardMessage, realtime.py lines 21-28: the action and the optional
\* correlation id of a client frame.
BoardMessage(action, correlation_id) ==
    [action |-> action, correlation_id |-> correlation_id]

\* The action of the frames whose content does not matter.
AnyAction == "card.moved"

\* str(uuid4()): the n-th identifier generated, different from every other one
\* and from what clients send.
uuid4(n) == <<"u1", "u2", "u3", "u4", "u5", "u6", "u7", "u8">>[n]

\* from_message as it would be if it took the message's correlation id as it
\* is, whether or not there is one.
from_message_as_given(board_id, message, event_id, fresh) ==
    [event_id |-> event_id, board_id |-> board_id, message |-> message,
     correlation_id |-> message.correlation_id,
     idempotency_key |-> message.correlation_id]

\* BoardEventEnvelope.from_message: correlation_id is the message's, or a fresh
\* uuid when that is None or empty; the envelope holds a copy of the message
\* with that correlation id, and idempotency_key is the correlation id.
\* event_id is what the default factory of the field generates.
from_message(board_id, message, event_id, fresh) ==
    LET correlation_id == IF Falsy(message.correlation_id)
                          THEN fresh ELSE message.correlation_id
        message_copy == [message EXCEPT !.correlation_id = correlation_id]
    IN [event_id |-> event_id, board_id |-> board_id, message |-> message_copy,
        correlation_id |-> correlation_id, idempotency_key |-> correlation_id]

\* BoardEventEnvelope.json_bytes(): the body carries every field of the envelope.
json_bytes(envelope) ==
    [fmt |-> "envelope", event_id |-> envelope.event_id,
     board_id |-> envelope.board_id, message |-> envelope.message,
     correlation_id |-> envelope.correlation_id,
     idempotency_key |-> envelope.idempotency_key]

\* Decoding as it would be if the body were not validated.
DecodableUnchecked(body) == TRUE

\* message.body.decode("utf-8") and model_validate_json succeed.
Decodable(body) == body.fmt = "envelope"

\* _extract_retry_count as it would be if it never read the header.
extract_retry_count_unread(message) == 0

\* _extract_retry_count: int(raw), 0 when the header is absent or int() raises.
extract_retry_count(message) ==
    IF message.headers.x_retry_count.tag = "int"
    THEN message.headers.x_retry_count.n
    ELSE 0

\* The headers of a message that has none: the two the durable publisher
\* sets, the three the worker sets, and the x-death the broker adds when it
\* dead-letters a message.
NoHeaders ==
    [correlation_id |-> None, idempotency_key |-> None, x_retry_count |-> Absent,
     last_error |-> FALSE, failure_reason |-> FALSE, x_death |-> FALSE]

NoMsg == [id |-> 0, origin |-> "none", body |-> [fmt |-> "none"], headers |-> NoHeaders]

\* One _on_message task: where it stands, the delivery it handles, and what it
\* has done so far: the messages it published to the retry / dead-letter
\* exchanges, its acks, its pub/sub publishes, its mark_processed calls, and
\* whether its key was set in Redis when it asked.  path names the branch of
\* _on_message it took: invalid, duplicate, success or failure.
IdleHandler ==
    [pc |-> "idle", path |-> "none", msg |-> NoMsg, out |-> <<>>, acks |-> 0,
     fanned |-> 0, marks |-> 0, keyWasMarked |-> FALSE]

NoHist == [origin |-> "none", consumed |-> 0, failed |-> 0, succeeded |-> FALSE]

\* BoardEventConsumer after start(), lines 44-53: Redis is up, the channel is
\* open, the topology and the idempotency store are set and the queue is
\* consumed. pc is where stop() stands, restarts counts the worker processes
\* started after the first.
StartedConsumer ==
    [pc |-> "running", step |-> 0, consuming |-> TRUE, channel |-> "open",
     redis |-> "up", topology |-> "set", restarts |-> 0]

\* ------------------------------------------------------------- publishers

\* RabbitMQEventPublisher.publish: the envelope of one client message, with
\* headers correlation_id / idempotency_key only (no x-retry-count).
Publish(board_id, correlation_id) ==
    /\ nextId \in MsgIds
    /\ LET envelope == from_message(board_id, BoardMessage(AnyAction, correlation_id),
                                    nextId, uuid4(nextId))
       IN primary' = Append(primary,
            [id |-> nextId, origin |-> "publisher",
             body |-> json_bytes(envelope),
             headers |-> [NoHeaders EXCEPT
                            !.correlation_id = envelope.correlation_id,
                            !.idempotency_key = envelope.idempotency_key]])
    /\ nextId' = nextId + 1
    /\ hist' = [hist EXCEPT ![nextId].origin = "publisher"]
    /\ UNCHANGED <<retry_queue, dlq_queue, handler, marked, pubsub, windowPubs,
                   firstDelivery,
                   registryVars, memoryVars, lifecycleVars, requestVars, cacheVars, shutdownVars>>

\* Any other AMQP client publishing to the primary exchange: any body, any
\* x-retry-count header.
ForeignPublish(body, x) ==
    /\ nextId \in MsgIds
    /\ primary' = Append(primary,
            [id |-> nextId, origin |-> "foreign", body |-> body,
             headers |-> [NoHeaders EXCEPT !.x_retry_count = x]])
    /\ nextId' = nextId + 1
    /\ hist' = [hist EXCEPT ![nextId].origin = "foreign"]
    /\ UNCHANGED <<retry_queue, dlq_queue, handler, marked, pubsub, windowPubs,
                   firstDelivery,
                   registryVars, memoryVars, lifecycleVars, requestVars, cacheVars, shutdownVars>>

\* The bodies a foreign client is taken to send: bytes that are not UTF-8, JSON
\* that is no envelope, and an envelope whose idempotency_key is not its
\* correlation id.
ForeignBodies(id) ==
    LET body == json_bytes(from_message("b1", BoardMessage(AnyAction, "k1"), id, uuid4(id)))
    IN {[body EXCEPT !.fmt = f] : f \in {"bad_utf8", "bad_schema"}}
            \cup {[body EXCEPT !.idempotency_key = "k2"]}

\* ----------------------------------------------------------------- broker

Unacked == {s \in Slots : handler[s].pc # "idle"}

InSeq(q, id) == \E i \in DOMAIN q : q[i].id = id

\* basic.deliver under set_qos(prefetch_count): the head of the primary queue is
\* handed to a new _on_message task while fewer than Prefetch deliveries are
\* unacknowledged.
Deliver(s) ==
    /\ primary # <<>>
    /\ consumer.consuming
    /\ handler[s].pc = "idle"
    /\ \A t \in Slots : handler[t].pc = "idle" => s <= t
    /\ LET m == Head(primary) IN
        /\ handler' = [handler EXCEPT ![s] = [IdleHandler EXCEPT !.pc = "start", !.msg = m]]
        /\ hist' = [hist EXCEPT ![m.id].consumed = @ + 1]
        /\ firstDelivery' = IF \E i \in DOMAIN firstDelivery : firstDelivery[i] = m.id
                            THEN firstDelivery
                            ELSE Append(firstDelivery, m.id)
    /\ primary' = Tail(primary)
    /\ UNCHANGED <<retry_queue, dlq_queue, marked, pubsub, nextId, windowPubs,
                   registryVars, memoryVars, lifecycleVars, requestVars, cacheVars, shutdownVars>>

\* Settings, config.py lines 45-53: the names of the exchanges, the queues
\* and the routing keys.
rabbitmq_exchange == "advanced.board.events"
rabbitmq_queue == "advanced.board.events"
rabbitmq_retry_exchange == "advanced.board.events.retry"
rabbitmq_retry_queue == "advanced.board.events.retry"
rabbitmq_dlq_exchange == "advanced.board.events.dlq"
rabbitmq_dlq_queue == "advanced.board.events.dlq"
rabbitmq_routing_key == "boards.activity"
rabbitmq_retry_routing_key == "boards.activity.retry"
rabbitmq_dlq_routing_key == "boards.activity.dlq"

\* declare_rabbitmq_topology, lines 118-119, 130 and 132-133: each queue is
\* bound to its exchange with its routing key.
Bindings ==
    {[exchange |-> rabbitmq_exchange, routing_key |-> rabbitmq_routing_key,
      queue |-> rabbitmq_queue],
     [exchange |-> rabbitmq_retry_exchange, routing_key |-> rabbitmq_retry_routing_key,
      queue |-> rabbitmq_retry_queue],
     [exchange |-> rabbitmq_dlq_exchange, routing_key |-> rabbitmq_dlq_routing_key,
      queue |-> rabbitmq_dlq_queue]}

\* A topic exchange and keys without wildcards: the queues whose binding has
\* the exchange and the routing key of the message.
route(exchange, routing_key) ==
    {b.queue : b \in {x \in Bindings : x.exchange = exchange
                                        /\ x.routing_key = routing_key}}

\* The retry queue as it would be with its own routing key as the
\* dead-letter routing key.
retry_queue_arguments_own_key ==
    [x_dead_letter_exchange |-> rabbitmq_exchange,
     x_dead_letter_routing_key |-> rabbitmq_retry_routing_key]

\* declare_rabbitmq_topology, lines 121-129: the arguments of the retry
\* queue next to its x-message-ttl.
retry_queue_arguments ==
    [x_dead_letter_exchange |-> rabbitmq_exchange,
     x_dead_letter_routing_key |-> rabbitmq_routing_key]

\* The message as the broker dead-letters it: body and headers as they are,
\* and an x-death header added.
dead_lettered(message) == [message EXCEPT !.headers.x_death = TRUE]

\* The queue with the message appended when the message is routed to it.
routed(queue, name, targets, message) ==
    IF name \in targets THEN Append(queue, message) ELSE queue

\* The x-message-ttl of the message at the head of the retry queue runs out:
\* the broker publishes it to the queue's dead-letter exchange with the
\* dead-letter routing key, and it arrives on the queues bound there.
RetryExpire ==
    /\ retry_queue # <<>>
    /\ LET message == dead_lettered(Head(retry_queue))
           targets == route(retry_queue_arguments.x_dead_letter_exchange,
                            retry_queue_arguments.x_dead_letter_routing_key)
       IN /\ primary' = routed(primary, rabbitmq_queue, targets, message)
          /\ retry_queue' = routed(Tail(retry_queue), rabbitmq_retry_queue,
                                   targets, message)
          /\ dlq_queue' = routed(dlq_queue, rabbitmq_dlq_queue, targets, message)
    /\ UNCHANGED <<handler, marked, pubsub, nextId, hist, windowPubs,
                   firstDelivery,
                   registryVars, memoryVars, lifecycleVars, requestVars, cacheVars, shutdownVars>>

\* Settings.redis_idempotency_prefix.
redis_idempotency_prefix == "advanced:idempotency"

\* _key as it would be if it left the caller's key out of the Redis key.
namespaced_prefix_only(key) == <<redis_idempotency_prefix>>

\* RedisIdempotencyStore._key: f"{prefix}:{key}".
namespaced(key) == <<redis_idempotency_prefix, key>>

\* Redis drops a key set with ex=ttl once the TTL has passed.
KeyExpire(k) ==
    /\ namespaced(k) \in marked
    /\ marked' = marked \ {namespaced(k)}
    /\ windowPubs' = [windowPubs EXCEPT ![k] = 0]
    /\ UNCHANGED <<primary, retry_queue, dlq_queue, handler, pubsub, nextId, hist,
                   firstDelivery,
                   registryVars, memoryVars, lifecycleVars, requestVars, cacheVars, shutdownVars>>

\* ------------------------------------------------- BoardEventConsumer

\* is_processed as it would be if it looked up the bare key, which is never set.
is_processed_bare_key(key) == FALSE

\* RedisIdempotencyStore.is_processed: EXISTS <prefix>:<key>.
is_processed(key) == namespaced(key) \in marked

\* mark_processed as it would be if it set the keys of every message.
mark_processed_every_key(key) == marked \cup {namespaced(k) : k \in Keys}

\* RedisIdempotencyStore.mark_processed: SET <prefix>:<key> "1" EX ttl, with a
\* ttl of at least one second; the keys set after the call.
mark_processed(key) == marked \cup {namespaced(key)}

\* build_activity_event as it would be if it were not given the envelope's
\* event_id and generated the event's id itself.
build_activity_event_own_id(body, seq) ==
    [id |-> uuid4(8), board |-> body.board_id, action |-> body.message.action,
     correlation_id |-> body.correlation_id,
     key |-> body.idempotency_key, seq |-> seq]

\* build_activity_event(envelope.board_id, envelope.message, event_id, correlation_id);
\* seq is the event's position on the pub/sub channel.
build_activity_event(body, seq) ==
    [id |-> body.event_id, board |-> body.board_id, action |-> body.message.action,
     correlation_id |-> IF Falsy(body.correlation_id)
                        THEN body.message.correlation_id ELSE body.correlation_id,
     key |-> body.idempotency_key, seq |-> seq]

\* _send_raw_to_dlq: body as received, headers plus failure_reason (and error).
raw_dlq_message(message) ==
    [message EXCEPT !.headers.failure_reason = TRUE]

\* failure_message as it would be without the last-error header.
failure_message_no_error(message, count) ==
    [message EXCEPT !.headers.x_retry_count = Count(count)]

\* _send_to_retry / _send_to_dlq: body as received, headers plus x-retry-count
\* and last-error.
failure_message(message, count) ==
    [message EXCEPT !.headers.x_retry_count = Count(count), !.headers.last_error = TRUE]

\* The retry limit checked one attempt late, and one attempt early.
RetriesExhaustedLate(attempts) == attempts > MaxRetries
RetriesExhaustedEarly(attempts) == attempts + 1 >= MaxRetries

\* _handle_failure: attempts >= settings.rabbitmq_max_retries.
RetriesExhausted(attempts) == attempts >= MaxRetries

\* _on_message, lines 96-103: the body does not decode; the raw message goes to
\* the dead-letter exchange; the ack follows.
DecodeFailure(s) ==
    /\ handler[s].pc = "start"
    /\ consumer.topology = "set" /\ consumer.channel = "open"
    /\ ~Decodable(handler[s].msg.body)
    /\ LET copy == raw_dlq_message(handler[s].msg) IN
        /\ dlq_queue' = Append(dlq_queue, copy)
        /\ handler' = [handler EXCEPT ![s].pc = "ack", ![s].path = "invalid",
                           ![s].out = Append(@, [exchange |-> "dlq", msg |-> copy])]
    /\ UNCHANGED <<primary, retry_queue, marked, pubsub, nextId, hist, windowPubs,
                   firstDelivery,
                   registryVars, memoryVars, lifecycleVars, requestVars, cacheVars, shutdownVars>>

\* _on_message, lines 96-111: the body decodes and is_processed answers.
IdempotencyCheck(s) ==
    /\ handler[s].pc = "start"
    /\ consumer.topology = "set" /\ consumer.redis = "up"
    /\ Decodable(handler[s].msg.body)
    /\ LET key == handler[s].msg.body.idempotency_key IN
        handler' = [handler EXCEPT
            ![s].keyWasMarked = namespaced(key) \in marked,
            ![s].path = IF is_processed(key) THEN "duplicate" ELSE "none",
            ![s].pc = IF is_processed(key) THEN "ack" ELSE "publish"]
    /\ UNCHANGED <<primary, retry_queue, dlq_queue, marked, pubsub, nextId, hist,
                   windowPubs, firstDelivery,
                   registryVars, memoryVars, lifecycleVars, requestVars, cacheVars, shutdownVars>>

\* _on_message, line 105: is_processed raises (Redis unreachable).  The call is
\* outside the try block: the exception leaves _on_message, and the delivery
\* stays unacknowledged inside the prefetch window.
IdempotencyCheckRaises(s) ==
    /\ handler[s].pc = "start"
    /\ consumer.topology = "set"
    /\ Decodable(handler[s].msg.body)
    /\ handler' = [handler EXCEPT ![s].pc = "raised"]
    /\ UNCHANGED <<primary, retry_queue, dlq_queue, marked, pubsub, nextId, hist,
                   windowPubs, firstDelivery,
                   registryVars, memoryVars, lifecycleVars, requestVars, cacheVars, shutdownVars>>

\* _on_message, lines 113-121: RedisBroadcaster.publish succeeds.
FanOut(s) ==
    /\ handler[s].pc = "publish"
    /\ consumer.redis = "up"
    /\ LET body == handler[s].msg.body IN
        /\ pubsub' = Append(pubsub, build_activity_event(body, Len(pubsub) + 1))
        /\ windowPubs' = [windowPubs EXCEPT ![body.idempotency_key] = @ + 1]
    /\ handler' = [handler EXCEPT ![s].pc = "mark", ![s].fanned = @ + 1]
    /\ UNCHANGED <<primary, retry_queue, dlq_queue, marked, nextId, hist, firstDelivery,
                   registryVars, memoryVars, lifecycleVars, requestVars, cacheVars, shutdownVars>>

\* _on_message, line 122: mark_processed succeeds (SET key "1" EX ttl).
MarkProcessed(s) ==
    /\ handler[s].pc = "mark"
    /\ consumer.redis = "up"
    /\ marked' = mark_processed(handler[s].msg.body.idempotency_key)
    /\ handler' = [handler EXCEPT ![s].pc = "ack", ![s].path = "success",
                       ![s].marks = @ + 1]
    /\ hist' = [hist EXCEPT ![handler[s].msg.id].succeeded = TRUE]
    /\ UNCHANGED <<primary, retry_queue, dlq_queue, pubsub, nextId, windowPubs,
                   firstDelivery,
                   registryVars, memoryVars, lifecycleVars, requestVars, cacheVars, shutdownVars>>

\* _handle_failure up to its ack, for the task in slot s: the copy goes to the
\* dead-letter exchange once the retries are exhausted, to the retry exchange
\* with the count raised by one otherwise.
handle_failure(s) ==
    LET message == handler[s].msg
        attempts == extract_retry_count(message)
    IN
    /\ IF RetriesExhausted(attempts)
       THEN LET copy == failure_message(message, attempts) IN
            /\ dlq_queue' = Append(dlq_queue, copy)
            /\ retry_queue' = retry_queue
            /\ handler' = [handler EXCEPT ![s].pc = "ack", ![s].path = "failure",
                               ![s].out = Append(@, [exchange |-> "dlq", msg |-> copy])]
       ELSE LET copy == failure_message(message, attempts + 1) IN
            /\ retry_queue' = Append(retry_queue, copy)
            /\ dlq_queue' = dlq_queue
            /\ handler' = [handler EXCEPT ![s].pc = "ack", ![s].path = "failure",
                               ![s].out = Append(@, [exchange |-> "retry", msg |-> copy])]
    /\ hist' = [hist EXCEPT ![message.id].failed = @ + 1]

\* _on_message, lines 120-129: RedisBroadcaster.publish raises; the except
\* block runs _handle_failure.
FanOutRaises(s) ==
    /\ handler[s].pc = "publish"
    /\ consumer.topology = "set" /\ consumer.channel = "open"
    /\ handle_failure(s)
    /\ UNCHANGED <<primary, marked, pubsub, nextId, windowPubs, firstDelivery,
                   registryVars, memoryVars, lifecycleVars, requestVars, cacheVars, shutdownVars>>

\* _on_message, lines 122-129: mark_processed raises after the publish went
\* out; the except block runs _handle_failure.
MarkProcessedRaises(s) ==
    /\ handler[s].pc = "mark"
    /\ consumer.topology = "set" /\ consumer.channel = "open"
    /\ handle_failure(s)
    /\ UNCHANGED <<primary, marked, pubsub, nextId, windowPubs, firstDelivery,
                   registryVars, memoryVars, lifecycleVars, requestVars, cacheVars, shutdownVars>>

\* await message.ack(): lines 102, 110, 131 and 144.
Ack(s) ==
    /\ handler[s].pc = "ack"
    /\ consumer.channel = "open"
    /\ handler' = [handler EXCEPT ![s].pc = "done", ![s].acks = @ + 1]
    /\ UNCHANGED <<primary, retry_queue, dlq_queue, marked, pubsub, nextId, hist,
                   windowPubs, firstDelivery,
                   registryVars, memoryVars, lifecycleVars, requestVars, cacheVars, shutdownVars>>

\* _on_message returns after its ack: the delivery leaves the prefetch window.
Return(s) ==
    /\ handler[s].pc = "done"
    /\ handler' = [handler EXCEPT ![s] = IdleHandler]
    /\ UNCHANGED <<primary, retry_queue, dlq_queue, marked, pubsub, nextId, hist,
                   windowPubs, firstDelivery,
                   registryVars, memoryVars, lifecycleVars, requestVars, cacheVars, shutdownVars>>

\* ------------------------------------------- BoardEventConsumer.stop

\* How many worker processes are started after the first has stopped.
MaxRestarts == 1

\* stop() with its fields cleared before the channel is closed.
stop_sequence_clear_first ==
    <<"cancel", "clear", "close_channel", "close_connection", "stop_redis">>

\* stop(), lines 65-77: the order of its steps.
stop_sequence ==
    <<"cancel", "close_channel", "close_connection", "stop_redis", "clear">>

\* stop() is at the step named.
Stopping(step) ==
    /\ consumer.pc = "stopping"
    /\ stop_sequence[consumer.step] = step

\* stop() has done its step: the next one, or the end of stop().
stop_advance(self) ==
    IF self.step < Len(stop_sequence)
    THEN [self EXCEPT !.step = @ + 1]
    ELSE [self EXCEPT !.pc = "stopped"]

\* The messages of the deliveries in S, in the order of their slots.
RECURSIVE slot_messages(_)
slot_messages(S) ==
    IF S = {} THEN <<>>
    ELSE LET s == CHOOSE x \in S : \A y \in S : x <= y
         IN <<handler[s].msg>> \o slot_messages(S \ {s})

\* The deliveries the broker still waits for an ack of.
Outstanding == {s \in Slots : handler[s].pc \notin {"idle", "done"}}

\* serve, lines 252-258, and stop, lines 63-64: a stop signal ends run() and
\* stop() begins; the _on_message tasks under way go on.
ConsumerStop ==
    /\ consumer.pc = "running"
    /\ consumer' = [consumer EXCEPT !.pc = "stopping", !.step = 1]
    /\ UNCHANGED <<workerVars, pubsub, registryVars, memoryVars, lifecycleVars,
                   requestVars, cacheVars>>

\* stop, lines 65-67: queue.cancel(consumer_tag); the broker delivers no
\* further message to this consumer.
ConsumerStopCancel ==
    /\ Stopping("cancel")
    /\ consumer' = [stop_advance(consumer) EXCEPT !.consuming = FALSE]
    /\ UNCHANGED <<workerVars, pubsub, registryVars, memoryVars, lifecycleVars,
                   requestVars, cacheVars>>

\* stop, lines 68-69: channel.close(). The broker puts every delivery of the
\* channel that was not acknowledged back at the head of the primary queue;
\* an ack, a reject or a publish on the channel no longer reaches it.
ConsumerStopCloseChannel ==
    /\ Stopping("close_channel")
    /\ consumer' = [stop_advance(consumer) EXCEPT !.channel = "closed",
                                                   !.consuming = FALSE]
    /\ primary' = slot_messages(Outstanding) \o primary
    /\ UNCHANGED <<retry_queue, dlq_queue, handler, marked, pubsub, nextId, hist,
                   windowPubs, firstDelivery, registryVars, memoryVars,
                   lifecycleVars, requestVars, cacheVars>>

\* stop, lines 70-71: connection.close().
ConsumerStopCloseConnection ==
    /\ Stopping("close_connection")
    /\ consumer' = stop_advance(consumer)
    /\ UNCHANGED <<workerVars, pubsub, registryVars, memoryVars, lifecycleVars,
                   requestVars, cacheVars>>

\* stop, line 72: RedisBroadcaster.stop(); Redis calls raise from here on.
ConsumerStopRedis ==
    /\ Stopping("stop_redis")
    /\ consumer' = [stop_advance(consumer) EXCEPT !.redis = "stopped"]
    /\ UNCHANGED <<workerVars, pubsub, registryVars, memoryVars, lifecycleVars,
                   requestVars, cacheVars>>

\* stop, lines 73-77: _topology and _idempotency are set to None.
ConsumerStopClear ==
    /\ Stopping("clear")
    /\ consumer' = [stop_advance(consumer) EXCEPT !.topology = "none"]
    /\ UNCHANGED <<workerVars, pubsub, registryVars, memoryVars, lifecycleVars,
                   requestVars, cacheVars>>

\* serve, lines 241-258, and start, lines 44-53: stop() has returned and the
\* process ends with the tasks it still had; the next worker process starts
\* and consumes the primary queue on a channel of its own.
WorkerRestart ==
    /\ consumer.pc = "stopped"
    /\ consumer.restarts < MaxRestarts
    /\ consumer' = [StartedConsumer EXCEPT !.restarts = consumer.restarts + 1]
    /\ handler' = [s \in Slots |-> IdleHandler]
    /\ UNCHANGED <<primary, retry_queue, dlq_queue, marked, pubsub, nextId, hist,
                   windowPubs, firstDelivery, registryVars, memoryVars,
                   lifecycleVars, requestVars, cacheVars>>

\* _on_message, lines 91-94: the task begins after stop() has cleared the
\* consumer's fields and rejects its delivery without requeue. On an open
\* channel the broker drops the message (the primary queue has no
\* dead-letter exchange); on a closed channel the reject reaches no broker.
RejectUninitialised(s) ==
    /\ handler[s].pc = "start"
    /\ consumer.topology = "none"
    /\ handler' = [handler EXCEPT
            ![s].pc = IF consumer.channel = "open" THEN "done" ELSE "raised",
            ![s].path = "rejected"]
    /\ UNCHANGED <<primary, retry_queue, dlq_queue, marked, pubsub, nextId, hist,
                   windowPubs, firstDelivery, registryVars, memoryVars,
                   lifecycleVars, requestVars, cacheVars, shutdownVars>>

\* _on_message, lines 96-103, on a closed channel: the body does not decode
\* and the publish of _send_raw_to_dlq raises; no ack is sent.
DecodeFailureAfterClose(s) ==
    /\ handler[s].pc = "start"
    /\ consumer.topology = "set" /\ consumer.channel = "closed"
    /\ ~Decodable(handler[s].msg.body)
    /\ handler' = [handler EXCEPT ![s].pc = "raised", ![s].path = "invalid"]
    /\ UNCHANGED <<primary, retry_queue, dlq_queue, marked, pubsub, nextId, hist,
                   windowPubs, firstDelivery, registryVars, memoryVars,
                   lifecycleVars, requestVars, cacheVars, shutdownVars>>

\* _on_message, lines 120-129, and _send_to_retry / _send_to_dlq on a closed
\* channel: the Redis call raises, and the publish to the retry or
\* dead-letter exchange raises in turn; the exception leaves _on_message
\* before the ack of line 144.
RepublishRaises(s) ==
    /\ handler[s].pc \in {"publish", "mark"}
    /\ consumer.topology = "set" /\ consumer.channel = "closed"
    /\ handler' = [handler EXCEPT ![s].pc = "raised", ![s].path = "failure"]
    /\ hist' = [hist EXCEPT ![handler[s].msg.id].failed = @ + 1]
    /\ UNCHANGED <<primary, retry_queue, dlq_queue, marked, pubsub, nextId,
                   windowPubs, firstDelivery, registryVars, memoryVars,
                   lifecycleVars, requestVars, cacheVars, shutdownVars>>

\* _on_message, lines 120-129, with _send_to_retry, lines 153-154, and
\* _send_to_dlq, lines 181-182: the Redis call raises when stop() has cleared
\* _topology; the republish returns without publishing and _handle_failure
\* goes on to its ack.
RepublishSkipped(s) ==
    /\ handler[s].pc \in {"publish", "mark"}
    /\ consumer.topology = "none"
    /\ handler' = [handler EXCEPT ![s].pc = "ack", ![s].path = "failure"]
    /\ hist' = [hist EXCEPT ![handler[s].msg.id].failed = @ + 1]
    /\ UNCHANGED <<primary, retry_queue, dlq_queue, marked, pubsub, nextId,
                   windowPubs, firstDelivery, registryVars, memoryVars,
                   lifecycleVars, requestVars, cacheVars, shutdownVars>>

\* await message.ack(), lines 102, 110, 131 and 144, on a closed channel: the
\* ack reaches no broker and the task ends.
AckAfterClose(s) ==
    /\ handler[s].pc = "ack"
    /\ consumer.channel = "closed"
    /\ handler' = [handler EXCEPT ![s].pc = "raised"]
    /\ UNCHANGED <<primary, retry_queue, dlq_queue, marked, pubsub, nextId, hist,
                   windowPubs, firstDelivery, registryVars, memoryVars,
                   lifecycleVars, requestVars, cacheVars, shutdownVars>>

\* --------------------------------------- RealtimeBroker and its endpoints

\* self._boards.get(board_id, set()).
board_get(bs, board_id) == IF board_id \in DOMAIN bs THEN bs[board_id] ELSE {}

\* sum(len(connections) for connections in self._boards.values()).
total_connections(bs) ==
    Cardinality({p \in (DOMAIN bs) \X Conns : p[2] \in bs[p[1]]})

\* The cap check as it would be if it refused the last free place.
AtCapacityEarly(total) == total + 1 >= MaxConnections

\* The cap check as it would be with > for >=.
AtCapacityLate(total) == total > MaxConnections

\* connect, line 87: total_connections >= settings.websocket_max_connections.
AtCapacity(total) == total >= MaxConnections

\* self._boards[board_id].add(websocket) on the defaultdict.
board_add(bs, board_id, c) ==
    [x \in DOMAIN bs \cup {board_id} |->
        IF x = board_id THEN board_get(bs, board_id) \cup {c} ELSE bs[x]]

\* The count connect returns as it would be if it counted every board.
active_count_all_boards(bs, board_id) == total_connections(bs)

\* connect, line 90: active = len(self._boards[board_id]).
active_count(bs, board_id) == Cardinality(bs[board_id])

\* disconnect as it would be without the pop of the emptied entry.
board_discard_keep_entry(bs, board_id, c) ==
    IF board_get(bs, board_id) = {}
    THEN bs
    ELSE [x \in DOMAIN bs |-> IF x = board_id THEN bs[board_id] \ {c} ELSE bs[x]]

\* disconnect, lines 98-103: nothing when the board has no (or an empty) entry;
\* otherwise discard, and pop the entry once it is empty.
board_discard(bs, board_id, c) ==
    IF board_get(bs, board_id) = {}
    THEN bs
    ELSE [x \in (IF bs[board_id] \ {c} = {} THEN DOMAIN bs \ {board_id} ELSE DOMAIN bs) |->
            IF x = board_id THEN bs[board_id] \ {c} ELSE bs[x]]

\* The cleanup as it would be if it emptied every board's set.
discard_stale_every_set(bs, stale) == [x \in DOMAIN bs |-> {}]

\* broadcast, lines 127-129: every stale websocket is discarded from every
\* board's set; the entries stay.
discard_stale(bs, stale) == [x \in DOMAIN bs |-> bs[x] \ stale]

\* list.remove(queue) when queue is in the list.
list_remove(list, q) ==
    IF \E i \in DOMAIN list : list[i] = q
    THEN LET i == CHOOSE j \in DOMAIN list :
                    list[j] = q /\ \A k \in DOMAIN list : list[k] = q => j <= k
         IN SubSeq(list, 1, i - 1) \o SubSeq(list, i + 1, Len(list))
    ELSE list

\* config.py, line 35: settings.realtime_token.
realtime_token == "change-me-realtime"

\* What a request carries: the token query parameter, None when absent, and
\* the Authorization header as the words a single space separates, <<>> when
\* the header is absent and <<"">> when it is the empty string.
NoCredentials == [query |-> None, authorization |-> <<>>]
QueryToken == [query |-> realtime_token, authorization |-> <<>>]

\* str.lower() on the schemes of the run.
lower(scheme) == IF scheme \in {"Bearer", "BEARER"} THEN "bearer" ELSE scheme

\* " ".join(words).
RECURSIVE join(_)
join(words) ==
    IF words = <<>> THEN ""
    ELSE IF Len(words) = 1 THEN words[1]
    ELSE words[1] \o " " \o join(Tail(words))

\* str.strip() on a text given by its words: the spaces at both ends go.
RECURSIVE strip(_)
strip(words) ==
    IF words = <<>> THEN <<>>
    ELSE IF words[1] = "" THEN strip(Tail(words))
    ELSE IF words[Len(words)] = "" THEN strip(SubSeq(words, 1, Len(words) - 1))
    ELSE words

\* _extract_authorization_token, lines 19-28: without a header there is no
\* token; partition(" ") splits the header at its first space; the scheme must
\* be bearer in any case and the rest not empty; the rest is stripped.
extract_authorization_token(authorization) ==
    IF authorization \in {<<>>, <<"">>} THEN None
    ELSE LET scheme == Head(authorization)
             token == Tail(authorization)
         IN IF lower(scheme) # "bearer" \/ token \in {<<>>, <<"">>}
            THEN None
            ELSE join(strip(token))

\* authenticate_websocket, lines 48-50, and require_http_token, lines 34-36:
\* the query parameter, or with none the header's token.
presented_token(credentials) ==
    IF Falsy(credentials.query)
    THEN extract_authorization_token(credentials.authorization)
    ELSE credentials.query

\* The check as it would be without the comparison with the configured token.
authenticate_any_token(credentials, configured) ==
    ~Falsy(presented_token(credentials))

\* authenticate_websocket, lines 48-54: the token must be there and equal the
\* configured one; otherwise the websocket is closed with 4401.
authenticate_websocket(credentials, configured) ==
    LET token == presented_token(credentials)
    IN ~(Falsy(token) \/ token # configured)

\* The check as it would be without the comparison with the configured token.
require_any_token(credentials, configured) ==
    ~Falsy(presented_token(credentials))

\* require_http_token, lines 34-42: the token must be there and equal the
\* configured one; otherwise HTTPException(401) is raised.
require_http_token(credentials, configured) ==
    LET token == presented_token(credentials)
    IN ~(Falsy(token) \/ token # configured)

\* One board_updates task with its websocket: where the task stands, the board
\* of the request, the socket's application_state, whether the client is still
\* there, the value connect returned, the close code sent, how often the task
\* ran broker.disconnect, what the client received (inbox, and in seen_active
\* the active_connections of the last event), and how the task left connect:
\* unauthorized, limit, accept_failed or accepted.
NewSocket ==
    [pc |-> "new", board |-> "none", application_state |-> "connecting",
     client |-> "live", active |-> 0, close_code |-> 0, disconnects |-> 0,
     inbox |-> <<>>, seen_active |-> 0, outcome |-> "none",
     credentials |-> NoCredentials, bad |-> <<>>, errors |-> <<>>]

\* The relay task between two broadcasts.
IdleBroadcast ==
    [pc |-> "idle", seq |-> 0, board |-> "none", snapshot |-> {}, todo |-> {},
     listeners |-> <<>>, stale |-> {}]

EmptyRegistry == [x \in {} |-> {}]

RegistryInit ==
    /\ boards = EmptyRegistry
    /\ activity_subscribers = <<>>
    /\ lock = "free"
    /\ ws = [c \in Conns |-> NewSocket]
    /\ bc = IdleBroadcast
    /\ relayPos = 0
    /\ sse = [q \in Listeners |-> "new"]
    /\ requests = [q \in Listeners |-> NoCredentials]
    /\ queues = [q \in Listeners |-> <<>>]

\* broadcast with the lock kept over its sends.
broadcast_lock_scope_send == {"send"}

\* broadcast, lines 108-110 and 125-129: the positions of the relay task at
\* which it awaits with the lock held. Both async with blocks end before the
\* next await, so there is none.
broadcast_lock_scope == {}

\* _lock can be taken: no task of a websocket holds it and the broadcast
\* under way does not.
LockFree == lock = "free" /\ bc.pc \notin broadcast_lock_scope

\* The request of websocket c is the next to arrive.
Arrived(c) == \A d \in Conns : Arrival[d] < Arrival[c] => ws[d].pc # "new"

\* board_updates, lines 231-234, and authenticate_websocket with a token that
\* passes: it returns without an await and the task goes on to broker.connect.
AuthenticateWith(c, board_id, credentials) ==
    /\ ws[c].pc = "new"
    /\ Arrived(c)
    /\ authenticate_websocket(credentials, realtime_token)
    /\ ws' = [ws EXCEPT ![c].pc = "connect", ![c].board = board_id,
                        ![c].credentials = credentials]
    /\ UNCHANGED <<boards, activity_subscribers, lock, bc, relayPos, sse, queues,
                   workerVars, pubsub, memoryVars, lifecycleVars, requestVars, cacheVars, shutdownVars>>

\* board_updates, lines 231-234, and authenticate_websocket with a token that
\* is missing or wrong: the socket is closed with 4401 and the task returns.
RejectWith(c, credentials) ==
    /\ ws[c].pc = "new"
    /\ Arrived(c)
    /\ ~authenticate_websocket(credentials, realtime_token)
    /\ ws' = [ws EXCEPT ![c].pc = "ended",
                        ![c].application_state = "disconnected",
                        ![c].close_code = UNAUTHORIZED_CLOSE_CODE,
                        ![c].outcome = "unauthorized",
                        ![c].credentials = credentials]
    /\ UNCHANGED <<boards, activity_subscribers, lock, bc, relayPos, sse, queues,
                   workerVars, pubsub, memoryVars, lifecycleVars, requestVars, cacheVars, shutdownVars>>

\* A request with the configured token as its query parameter.
Authenticate(c, board_id) == AuthenticateWith(c, board_id, QueryToken)

\* A request without any token.
AuthenticateRejects(c) == RejectWith(c, NoCredentials)

\* connect, lines 85-88: the lock is taken and the total is compared with the
\* cap; at the cap ConnectionLimitExceeded leaves the async with block (the lock
\* is released) and board_updates goes to its except clause.
ConnectCheck(c) ==
    /\ ws[c].pc = "connect"
    /\ LockFree
    /\ IF AtCapacity(total_connections(boards))
       THEN /\ ws' = [ws EXCEPT ![c].pc = "close", ![c].outcome = "limit"]
            /\ lock' = lock
       ELSE /\ ws' = [ws EXCEPT ![c].pc = "register"]
            /\ lock' = c
    /\ UNCHANGED <<boards, activity_subscribers, bc, relayPos, sse, queues,
                   workerVars, pubsub, memoryVars, lifecycleVars, requestVars, cacheVars, shutdownVars>>

\* connect, lines 89-90: the websocket is added to its board's set, active is
\* the size of that set, and the lock is released.
ConnectRegister(c) ==
    /\ ws[c].pc = "register"
    /\ lock = c
    /\ boards' = board_add(boards, ws[c].board, c)
    /\ ws' = [ws EXCEPT ![c].pc = "accept",
                        ![c].active = active_count(boards', ws[c].board)]
    /\ lock' = "free"
    /\ UNCHANGED <<activity_subscribers, bc, relayPos, sse, queues,
                   workerVars, pubsub, memoryVars, lifecycleVars, requestVars, cacheVars, shutdownVars>>

\* connect, lines 91-92, and board_updates, line 240: accept succeeds, connect
\* returns active, connected = True, and the task waits in receive_json.
Accept(c) ==
    /\ ws[c].pc = "accept"
    /\ ws' = [ws EXCEPT ![c].pc = "receive", ![c].application_state = "connected",
                        ![c].active = 0, ![c].outcome = "accepted"]
    /\ UNCHANGED <<boards, activity_subscribers, lock, bc, relayPos, sse, queues,
                   workerVars, pubsub, memoryVars, lifecycleVars, requestVars, cacheVars, shutdownVars>>

\* connect, line 91: accept raises (the client has left during the handshake).
\* The error is no ConnectionLimitExceeded: it leaves board_updates at line 239,
\* outside the try block whose finally clause disconnects.  Starlette sets
\* application_state to CONNECTED before it sends the accept frame, so the
\* state is CONNECTED when the send fails and CONNECTING when the wait for the
\* connect frame fails.
AcceptRaises(c, state) ==
    /\ ws[c].pc = "accept"
    /\ ws' = [ws EXCEPT ![c].pc = "ended", ![c].application_state = state,
                        ![c].client = "gone", ![c].active = 0,
                        ![c].outcome = "accept_failed"]
    /\ UNCHANGED <<boards, activity_subscribers, lock, bc, relayPos, sse, queues,
                   workerVars, pubsub, memoryVars, lifecycleVars, requestVars, cacheVars, shutdownVars>>

\* board_updates, lines 241-243: websocket.close(code=1013), then return.
CloseLimit(c) ==
    /\ ws[c].pc = "close"
    /\ ws' = [ws EXCEPT ![c].pc = "ended", ![c].application_state = "disconnected",
                        ![c].close_code = WS_1013_TRY_AGAIN_LATER]
    /\ UNCHANGED <<boards, activity_subscribers, lock, bc, relayPos, sse, queues,
                   workerVars, pubsub, memoryVars, lifecycleVars, requestVars, cacheVars, shutdownVars>>

\* The client of an accepted socket goes away.
ClientGone(c) ==
    /\ ws[c].pc = "receive"
    /\ ws[c].client = "live"
    /\ ws' = [ws EXCEPT ![c].client = "gone"]
    /\ UNCHANGED <<boards, activity_subscribers, lock, bc, relayPos, sse, queues,
                   workerVars, pubsub, memoryVars, lifecycleVars, requestVars, cacheVars, shutdownVars>>

\* board_updates, lines 248 and 287-290: receive_json raises
\* WebSocketDisconnect; the finally clause is entered with connected = True.
ReceiveDisconnect(c) ==
    /\ ws[c].pc = "receive"
    /\ ws[c].client = "gone"
    /\ ws' = [ws EXCEPT ![c].pc = "disconnect"]
    /\ UNCHANGED <<boards, activity_subscribers, lock, bc, relayPos, sse, queues,
                   workerVars, pubsub, memoryVars, lifecycleVars, requestVars, cacheVars, shutdownVars>>

\* board_updates, line 291, and disconnect, lines 94-103.
Disconnect(c) ==
    /\ ws[c].pc = "disconnect"
    /\ LockFree
    /\ boards' = board_discard(boards, ws[c].board, c)
    /\ ws' = [ws EXCEPT ![c].pc = "ended", ![c].disconnects = @ + 1]
    /\ UNCHANGED <<activity_subscribers, lock, bc, relayPos, sse, queues,
                   workerVars, pubsub, memoryVars, lifecycleVars, requestVars, cacheVars, shutdownVars>>

\* board_updates, lines 248-273: a valid frame arrives and its envelope is
\* published to the primary exchange with correlation id k.
ClientPublish(c, k) ==
    /\ ws[c].pc = "receive"
    /\ ws[c].client = "live"
    /\ pipeline.publisher = "rabbit"
    /\ Publish(ws[c].board, k)

\* How many frames of one websocket fail to become a published envelope.
MaxBadFrames == 2

\* The error frame as it would be with one reason for every failure.
error_reason_generic(kind) == "validation_error"

\* board_updates, lines 249-256, 260-268 and 277-285: the reason of the error
\* frame sent for a frame that is no JSON text, for one that is no
\* BoardMessage, and for one whose envelope could not be published.
error_reason(kind) ==
    IF kind = "invalid_json" THEN "invalid_json"
    ELSE IF kind = "invalid_message" THEN "validation_error"
    ELSE "event_bus_failure"

\* board_updates, lines 247-269: a text frame arrives that json.loads rejects
\* (invalid_json) or that BoardMessage.model_validate rejects
\* (invalid_message, with exc.errors() as JSON-encodable detail); the handler
\* sends the error frame and goes on with the loop. bad keeps the kinds of
\* the frames that were not published and errors the reasons the client got.
ReceiveRejected(c, kind) ==
    /\ ws[c].pc = "receive"
    /\ ws[c].client = "live"
    /\ Len(ws[c].bad) < MaxBadFrames
    /\ ws' = [ws EXCEPT ![c].bad = Append(@, kind),
                        ![c].errors = Append(@, error_reason(kind))]
    /\ UNCHANGED <<boards, activity_subscribers, lock, bc, relayPos, sse, queues,
                   workerVars, pubsub, memoryVars, lifecycleVars, requestVars, cacheVars, shutdownVars>>

\* board_updates, line 248: a binary frame arrives. receive_json() in its
\* default text mode reads message["text"], which a binary frame does not
\* have: KeyError (or TypeError from json.loads(None)) is raised, which is
\* neither json.JSONDecodeError nor WebSocketDisconnect. It leaves the loop
\* through the finally clause, no error frame is sent, and the server ends
\* the connection.
ReceiveBinary(c) ==
    /\ ws[c].pc = "receive"
    /\ ws[c].client = "live"
    /\ Len(ws[c].bad) < MaxBadFrames
    /\ ws' = [ws EXCEPT ![c].bad = Append(@, "binary"), ![c].pc = "disconnect",
                        ![c].client = "gone", ![c].outcome = "crashed"]
    /\ UNCHANGED <<boards, activity_subscribers, lock, bc, relayPos, sse, queues,
                   workerVars, pubsub, memoryVars, lifecycleVars, requestVars, cacheVars, shutdownVars>>

\* board_updates, lines 270-286: a valid frame arrives and pipeline.publish
\* raises, the pipeline having no publisher (messaging.py, lines 369-370) or
\* the exchange refusing the message (lines 190-192); the handler logs it,
\* sends the event_bus_failure frame and goes on with the loop.
ClientPublishFails(c) ==
    /\ ws[c].pc = "receive"
    /\ ws[c].client = "live"
    /\ Len(ws[c].bad) < MaxBadFrames
    /\ \/ /\ pipeline.publisher = "none"
          /\ pipeline' = [pipeline EXCEPT !.rejected = @ + 1]
          /\ UNCHANGED rabbit
       \/ /\ pipeline.publisher = "rabbit"
          /\ rabbit' = [rabbit EXCEPT !.failed = @ + 1]
          /\ UNCHANGED pipeline
    /\ ws' = [ws EXCEPT ![c].bad = Append(@, "publish_failed"),
                        ![c].errors = Append(@, error_reason("publish_failed"))]
    /\ UNCHANGED <<boards, activity_subscribers, lock, bc, relayPos, sse, queues,
                   workerVars, pubsub, memoryVars, settings, subscriber, requestVars, cacheVars, shutdownVars>>

\* Any worker instance publishes an event for board_id on the activity channel.
ChannelPublish(board_id) ==
    /\ Len(pubsub) < MaxEvents
    /\ pubsub' = Append(pubsub,
            build_activity_event(
                json_bytes(from_message(board_id, BoardMessage(AnyAction, "k1"),
                                        Len(pubsub) + 1, uuid4(Len(pubsub) + 1))),
                Len(pubsub) + 1))
    /\ UNCHANGED <<primary, retry_queue, dlq_queue, handler, marked, nextId, hist,
                   windowPubs, firstDelivery, registryVars, memoryVars, lifecycleVars, requestVars, cacheVars, shutdownVars>>

\* The subscription as it would be if it handed out the newest message first.
listen_newest_first(taken) == Len(pubsub) - taken

\* _listen_loop, line 308: pubsub.listen() yields the channel's messages in the
\* order they were published; taken is the number yielded so far.
listen(taken) == taken + 1

\* _listen_loop, lines 308-320, and broadcast, lines 108-111: the listen task,
\* while it runs and listens, takes the next message off the channel and
\* awaits the handler, which snapshots the board's connections and the
\* listener list under the lock. A message handed to the handler ends a run
\* of consecutive loop-level errors.
BroadcastSnapshot ==
    /\ subscriber.task = "running"
    /\ subscriber.loop = "listen"
    /\ bc.pc = "idle"
    /\ relayPos < Len(pubsub)
    /\ lock = "free"
    /\ LET event == pubsub[listen(relayPos)]
           connections == board_get(boards, event.board)
       IN bc' = [pc |-> "send", seq |-> event.seq, board |-> event.board,
                 snapshot |-> connections, todo |-> connections,
                 listeners |-> activity_subscribers, stale |-> {}]
    /\ relayPos' = relayPos + 1
    /\ subscriber' = [subscriber EXCEPT !.errors = 0]
    /\ UNCHANGED <<boards, activity_subscribers, lock, ws, sse, queues,
                   workerVars, pubsub, memoryVars, settings, pipeline, rabbit,
                   requests, cacheVars, shutdownVars>>

\* broadcast, line 111: the event with active_connections = len(connections).
enriched == [seq |-> bc.seq, board |-> bc.board,
             active_connections |-> Cardinality(bc.snapshot)]

\* broadcast, lines 115-117: the websocket is not CONNECTED; it is stale.
SendSkipsStale(c) ==
    /\ bc.pc = "send"
    /\ c \in bc.todo
    /\ ws[c].application_state # "connected"
    /\ bc' = [bc EXCEPT !.todo = @ \ {c}, !.stale = @ \cup {c}]
    /\ UNCHANGED <<boards, activity_subscribers, lock, ws, relayPos, sse, queues,
                   workerVars, pubsub, memoryVars, lifecycleVars, requestVars, cacheVars, shutdownVars>>

\* The types json.dumps encodes.
JsonTypes == {"str", "int", "dict", "null"}

\* ActivityEvent, lines 37-48: the Python type of the value each field holds;
\* timestamp is a datetime, set by build_activity_event (line 69) and restored
\* by model_validate_json when the event comes off the channel.
ActivityEventFields ==
    [id |-> "str", board |-> "str", action |-> "str", user |-> "str",
     payload |-> "dict", timestamp |-> "datetime", correlation_id |-> "str",
     kind |-> "str", active_connections |-> "int"]

\* model_dump(mode="json"), which the code does not use: a datetime becomes an
\* ISO 8601 string.
model_dump_mode_json(event) ==
    [f \in DOMAIN ActivityEventFields |->
        IF ActivityEventFields[f] = "datetime" THEN "str" ELSE ActivityEventFields[f]]

\* broadcast, line 119, and event_source, line 216: model_dump() in its default
\* Python mode returns a dict whose values keep their Python types.
model_dump(event) == [f \in DOMAIN ActivityEventFields |-> ActivityEventFields[f]]

\* json.dumps, called by send_json before anything is sent and by event_source:
\* it returns the text, or raises TypeError on a value that is not of a JSON
\* type.
json_dumps(data) ==
    IF \A f \in DOMAIN data : data[f] \in JsonTypes THEN "text" ELSE "TypeError"

\* broadcast, lines 118-123: send_json on a CONNECTED websocket. A TypeError of
\* json.dumps is not among the exceptions broadcast catches: it leaves
\* broadcast at once, without the cleanup and without the listener queues, and
\* the caller logs it (_listen_loop, lines 318-323). Otherwise the text goes to
\* a client that is still there, and for a client that has gone the send
\* passes unnoticed or raises WebSocketDisconnect or RuntimeError, which marks
\* the websocket stale.
SendJson(c) ==
    /\ bc.pc = "send"
    /\ c \in bc.todo
    /\ ws[c].application_state = "connected"
    /\ IF json_dumps(model_dump(enriched)) = "TypeError"
       THEN /\ bc' = IdleBroadcast
            /\ UNCHANGED ws
       ELSE \/ /\ bc' = [bc EXCEPT !.todo = @ \ {c}]
               /\ ws' = [ws EXCEPT
                           ![c].inbox = IF ws[c].client = "live"
                                        THEN Append(@, enriched.seq) ELSE @,
                           ![c].seen_active =
                               IF ws[c].client = "live"
                               THEN enriched.active_connections ELSE @]
            \/ /\ ws[c].client = "gone"
               /\ bc' = [bc EXCEPT !.todo = @ \ {c}, !.stale = @ \cup {c}]
               /\ UNCHANGED ws
    /\ UNCHANGED <<boards, activity_subscribers, lock, relayPos, sse, queues,
                   workerVars, pubsub, memoryVars, lifecycleVars, requestVars, cacheVars, shutdownVars>>

\* put_nowait(enriched) on every queue of the snapshot.
put_all(qs, listeners, item) ==
    [q \in DOMAIN qs |->
        IF \E i \in DOMAIN listeners : listeners[i] = q THEN Append(qs[q], item) ELSE qs[q]]

\* broadcast, lines 125-132, after the last send: the stale websockets are
\* discarded under the lock, every listener queue of the snapshot gets the
\* event, and the handler returns to the relay loop.
BroadcastFinish ==
    /\ bc.pc = "send"
    /\ bc.todo = {}
    /\ bc.stale # {} => lock = "free"
    /\ boards' = IF bc.stale # {} THEN discard_stale(boards, bc.stale) ELSE boards
    /\ queues' = put_all(queues, bc.listeners, enriched.seq)
    /\ bc' = IdleBroadcast
    /\ UNCHANGED <<activity_subscribers, lock, ws, relayPos, sse,
                   workerVars, pubsub, memoryVars, lifecycleVars, requestVars, cacheVars, shutdownVars>>

\* activity_stream, lines 193-202: the dependency require_http_token passes
\* and register_activity_listener appends a new queue under the lock.
RegisterListenerWith(q, credentials) ==
    /\ sse[q] = "new"
    /\ require_http_token(credentials, realtime_token)
    /\ LockFree
    /\ activity_subscribers' = Append(activity_subscribers, q)
    /\ sse' = [sse EXCEPT ![q] = "streaming"]
    /\ requests' = [requests EXCEPT ![q] = credentials]
    /\ UNCHANGED <<boards, lock, ws, bc, relayPos, queues,
                   workerVars, pubsub, memoryVars, lifecycleVars, cacheVars, shutdownVars>>

\* activity_stream, lines 193-197: the dependency require_http_token raises
\* HTTPException(401) and the endpoint's body never runs.
RejectListenerWith(q, credentials) ==
    /\ sse[q] = "new"
    /\ ~require_http_token(credentials, realtime_token)
    /\ sse' = [sse EXCEPT ![q] = "401"]
    /\ requests' = [requests EXCEPT ![q] = credentials]
    /\ UNCHANGED <<boards, activity_subscribers, lock, ws, bc, relayPos, queues,
                   workerVars, pubsub, memoryVars, lifecycleVars, cacheVars, shutdownVars>>

\* A request with the configured token as its query parameter.
RegisterListener(q) == RegisterListenerWith(q, QueryToken)

\* event_source, lines 210-217: queue.get() returns the oldest event and
\* json.dumps(event.model_dump()) makes its payload. With the payload the frame
\* is written and the stream goes on; a TypeError of json.dumps ends the
\* generator, whose finally clause is still to run.
StreamEvent(q) ==
    /\ sse[q] = "streaming"
    /\ queues[q] # <<>>
    /\ queues' = [queues EXCEPT ![q] = Tail(@)]
    /\ sse' = [sse EXCEPT ![q] =
                IF json_dumps(model_dump(Head(queues[q]))) = "TypeError"
                THEN "raised" ELSE "streaming"]
    /\ UNCHANGED <<boards, activity_subscribers, lock, ws, bc, relayPos,
                   workerVars, pubsub, memoryVars, lifecycleVars, requestVars, cacheVars, shutdownVars>>

\* event_source, lines 207-208 and 218-219: the client has disconnected, or the
\* generator has raised; the finally clause runs unregister_activity_listener.
UnregisterListener(q) ==
    /\ sse[q] \in {"streaming", "raised"}
    /\ LockFree
    /\ activity_subscribers' = list_remove(activity_subscribers, q)
    /\ sse' = [sse EXCEPT ![q] = "ended"]
    /\ UNCHANGED <<boards, lock, ws, bc, relayPos, queues,
                   workerVars, pubsub, memoryVars, lifecycleVars, requestVars, cacheVars, shutdownVars>>

\* activity_stream, lines 202 and 221-225, when the response never starts: the
\* queue is registered in the endpoint's body, the StreamingResponse is
\* returned, and the client is gone before the first chunk is asked for (the
\* send of the response start raises, or the disconnect cancels the response
\* task). The generator event_source was never entered, so its finally
\* clause (lines 218-219) does not run, and the request is over.
StreamAborted(q) ==
    /\ sse[q] = "new"
    /\ require_http_token(QueryToken, realtime_token)
    /\ LockFree
    /\ activity_subscribers' = Append(activity_subscribers, q)
    /\ sse' = [sse EXCEPT ![q] = "aborted"]
    /\ requests' = [requests EXCEPT ![q] = QueryToken]
    /\ UNCHANGED <<boards, lock, ws, bc, relayPos, queues,
                   workerVars, pubsub, memoryVars, lifecycleVars, cacheVars, shutdownVars>>

\* reset, lines 149-154.
Reset ==
    /\ LockFree
    /\ boards' = EmptyRegistry
    /\ activity_subscribers' = <<>>
    /\ UNCHANGED <<lock, ws, bc, relayPos, sse, queues,
                   workerVars, pubsub, memoryVars, lifecycleVars, requestVars, cacheVars, shutdownVars>>

\* ---------------------------------------- envelopes, in-memory transport

\* The frames of a run, and what they may hold: an action, and a correlation id
\* that is missing, empty, or one of the clients' keys.
FrameIds == 1 .. MaxFrames
Actions == {"card.moved", "card.added"}
FrameMessages ==
    {BoardMessage(action, correlation_id) :
        action \in Actions, correlation_id \in {None, ""} \cup Keys}

NoEnvelopes ==
    /\ envelopes = <<>>
    /\ uuids = 0
    /\ publishes = <<>>
    /\ received = <<>>

\* board_updates, line 270: from_message(board_id, message) for the message of
\* frame i. uuid4() is called for the correlation id when the message has none,
\* then by the default factory of event_id. The message is not assigned to.
FromMessage(i, board_id) ==
    /\ Len(envelopes) < MaxEnvelopes
    /\ LET calls == IF Falsy(frames[i].correlation_id) THEN 2 ELSE 1
           envelope == from_message(board_id, frames[i], uuid4(uuids + calls),
                                    uuid4(uuids + 1))
       IN /\ envelopes' = Append(envelopes, [frame |-> i, envelope |-> envelope])
          /\ uuids' = uuids + calls
    /\ UNCHANGED <<frames, publishes, received, workerVars, pubsub, registryVars,
                   lifecycleVars, requestVars, cacheVars, shutdownVars>>

\* EventPipeline.publish in memory mode, lines 368-372, and
\* InMemoryEventPublisher.publish, lines 76-84: the event is built from the
\* envelope and the handler is awaited with it. No idempotency store is
\* involved.
MemoryPublish(n) ==
    /\ pipeline.publisher = "memory"
    /\ n \in DOMAIN envelopes
    /\ Len(publishes) < MaxPublishes
    /\ publishes' = Append(publishes, [envelope |-> n, pc |-> "handler"])
    /\ received' = Append(received,
            [call |-> Len(publishes) + 1,
             event |-> build_activity_event(envelopes[n].envelope, Len(received) + 1)])
    /\ UNCHANGED <<frames, envelopes, uuids, workerVars, pubsub, registryVars,
                   lifecycleVars, requestVars, cacheVars, shutdownVars>>

\* InMemoryEventPublisher.publish, line 84: the awaited handler returns, and so
\* does publish.
HandlerReturns(call) ==
    /\ call \in DOMAIN publishes
    /\ publishes[call].pc = "handler"
    /\ publishes' = [publishes EXCEPT ![call].pc = "returned"]
    /\ UNCHANGED <<frames, envelopes, uuids, received, workerVars, pubsub, registryVars,
                   lifecycleVars, requestVars, cacheVars, shutdownVars>>

\* InMemoryEventPublisher.publish, line 84: the awaited handler raises, and the
\* exception leaves publish.
HandlerRaises(call) ==
    /\ call \in DOMAIN publishes
    /\ publishes[call].pc = "handler"
    /\ publishes' = [publishes EXCEPT ![call].pc = "raised"]
    /\ UNCHANGED <<frames, envelopes, uuids, received, workerVars, pubsub, registryVars,
                   lifecycleVars, requestVars, cacheVars, shutdownVars>>

\* ------------------------------------------------- task cache (tasks API)

\* How many TaskService writes commit during a run.
MaxWrites == 2

\* The requests that read through the cache.
Readers == {"r1", "r2", "r3"}

TASK_LIST_CACHE_NAMESPACE == "tasks:list"
TASK_STATISTICS_CACHE_NAMESPACE == "tasks:statistics"

\* The cache keys of one user: namespace and key as cache_get_or_set joins
\* them, for the default page of list_tasks and for get_task_statistics.
CacheKeys ==
    {[namespace |-> TASK_LIST_CACHE_NAMESPACE,
      key |-> "owner=1:status=all:limit=20:offset=0"],
     [namespace |-> TASK_STATISTICS_CACHE_NAMESPACE, key |-> "owner=1"]}

\* A request before it has reached cache_get_or_set.
NewRead == [pc |-> "new", cache_key |-> "none", since |-> 0, payload |-> 0,
            result |-> 0, hit |-> FALSE]

\* No TaskService write under way; returned counts the writes that have
\* returned to their callers.
IdleWrite == [pc |-> "idle", namespace |-> "none", keys |-> {}, returned |-> 0]

CacheInit ==
    /\ database = 0
    /\ redis_cache = [k \in {} |-> 0]
    /\ reads = [r \in Readers |-> NewRead]
    /\ write = IdleWrite

\* Redis SET and DEL on the cache.
cache_set(entries, k, payload) ==
    [x \in DOMAIN entries \cup {k} |-> IF x = k THEN payload ELSE entries[x]]

cache_delete(entries, keys) ==
    [x \in DOMAIN entries \ keys |-> entries[x]]

\* cache_get_or_set, lines 141-168: with the cache enabled and a client at
\* hand, client.get(cache_key); a payload found is validated and returned
\* (a hit), otherwise the miss is recorded and the builder is next. since
\* keeps how many writes had returned when the request began.
CacheGet(r, k) ==
    /\ reads[r].pc = "new"
    /\ reads' = [reads EXCEPT ![r] =
                  IF k \in DOMAIN redis_cache
                  THEN [@ EXCEPT !.pc = "done", !.cache_key = k,
                                 !.since = write.returned, !.hit = TRUE,
                                 !.result = redis_cache[k]]
                  ELSE [@ EXCEPT !.pc = "build", !.cache_key = k,
                                 !.since = write.returned]]
    /\ UNCHANGED <<database, redis_cache, write, workerVars, pubsub, registryVars,
                   memoryVars, lifecycleVars, requestVars, shutdownVars>>

\* cache_get_or_set, line 173, and the builders of the router (lines 107-119
\* and 156-162 of routers/tasks.py): the result is read from the database as
\* it is committed at this moment.
CacheBuild(r) ==
    /\ reads[r].pc = "build"
    /\ reads' = [reads EXCEPT ![r].pc = "set", ![r].payload = database]
    /\ UNCHANGED <<database, redis_cache, write, workerVars, pubsub, registryVars,
                   memoryVars, lifecycleVars, requestVars, shutdownVars>>

\* cache_get_or_set, lines 174-194: the result is serialised, stored under the
\* cache key with the TTL, and returned.
CacheStore(r) ==
    /\ reads[r].pc = "set"
    /\ redis_cache' = cache_set(redis_cache, reads[r].cache_key, reads[r].payload)
    /\ reads' = [reads EXCEPT ![r].pc = "done", ![r].result = reads[r].payload]
    /\ UNCHANGED <<database, write, workerVars, pubsub, registryVars,
                   memoryVars, lifecycleVars, requestVars, shutdownVars>>

\* The TTL of a cache key runs out (ex=expires, line 187).
CacheExpire(k) ==
    /\ k \in DOMAIN redis_cache
    /\ redis_cache' = cache_delete(redis_cache, {k})
    /\ UNCHANGED <<database, reads, write, workerVars, pubsub, registryVars,
                   memoryVars, lifecycleVars, requestVars, shutdownVars>>

\* TaskService.create_task, update_task, update_task_for_owner,
\* reassign_task, delete_task and delete_task_for_owner up to their
\* session.commit(): the tasks table changes; _invalidate_cache is next,
\* beginning with the list namespace (invalidate_task_cache, line 230).
TaskCommit ==
    /\ write.pc = "idle"
    /\ database < MaxWrites
    /\ database' = database + 1
    /\ write' = [write EXCEPT !.pc = "scan", !.namespace = TASK_LIST_CACHE_NAMESPACE]
    /\ UNCHANGED <<redis_cache, reads, workerVars, pubsub, registryVars,
                   memoryVars, lifecycleVars, requestVars, shutdownVars>>

\* invalidate_task_cache, lines 230-231, and the end of the TaskService
\* method: after the list namespace the statistics namespace, after that
\* the write returns to its caller.
after_namespace(w) ==
    IF w.namespace = TASK_LIST_CACHE_NAMESPACE
    THEN [w EXCEPT !.pc = "scan", !.namespace = TASK_STATISTICS_CACHE_NAMESPACE,
                   !.keys = {}]
    ELSE [IdleWrite EXCEPT !.returned = w.returned + 1]

\* invalidate_namespace, lines 197-216: the keys of the namespace are
\* collected with scan_iter; with none found the function returns.
InvalidateScan ==
    /\ write.pc = "scan"
    /\ LET keys == {k \in DOMAIN redis_cache : k.namespace = write.namespace}
       IN write' = IF keys = {} THEN after_namespace(write)
                   ELSE [write EXCEPT !.pc = "delete", !.keys = keys]
    /\ UNCHANGED <<database, redis_cache, reads, workerVars, pubsub, registryVars,
                   memoryVars, lifecycleVars, requestVars, shutdownVars>>

\* invalidate_namespace, lines 218-224: the collected keys are deleted.
InvalidateDelete ==
    /\ write.pc = "delete"
    /\ redis_cache' = cache_delete(redis_cache, write.keys)
    /\ write' = after_namespace(write)
    /\ UNCHANGED <<database, reads, workerVars, pubsub, registryVars,
                   memoryVars, lifecycleVars, requestVars, shutdownVars>>

\* ------------------------------------ pipeline, publisher and subscriber

\* How often start() is called, how many loop-level errors the listen loop
\* meets, the longest reconnect delay, and how many publish calls are refused.
MaxStarts == 2
MaxErrors == 3
MaxDelay == 3
MaxRejected == 1

\* config.py, lines 58-61: the transport and the reconnect delays, the initial
\* one no longer than the maximum.
SettingsSet ==
    {s \in [event_transport : {"rabbitmq", "memory"},
            reconnect_initial_delay_seconds : 1 .. MaxDelay,
            reconnect_max_delay_seconds : 1 .. MaxDelay] :
        s.reconnect_initial_delay_seconds <= s.reconnect_max_delay_seconds}

\* RedisActivitySubscriber.__init__, lines 254-260, with the listen task's
\* locals: where the loop stands, its backoff and the delay it last slept.
\* errors counts the loop-level errors since the loop last handed a message to
\* the handler and faults those since the task began; call is the position of
\* a stop() call, or how the call ended.
NewSubscriber ==
    [stopped |-> FALSE, task |-> "none", pubsub |-> "none", redis |-> "none",
     loop |-> "none", backoff |-> 0, slept |-> 0, errors |-> 0, faults |-> 0,
     call |-> "idle"]

\* RabbitMQEventPublisher.__init__, lines 148-152.
NewPublisher == [connection |-> "none", topology |-> FALSE, failed |-> 0]

\* EventPipeline.__init__, lines 338-342, with the call under way (pc), how the
\* last start() or stop() ended (last), whose error a start() raised (error),
\* and the numbers of start() calls and of refused publish calls.
NewPipeline ==
    [pc |-> "idle", publisher |-> "none", subscriber |-> "none", last |-> "new",
     error |-> "none", starts |-> 0, rejected |-> 0]

\* _initialise_pubsub, lines 284-298. An old subscription is dropped, whatever
\* unsubscribe and close do; an old connection is closed, and a failure of that
\* close leaves the method; then a new connection and a new subscription are
\* made, and subscribe may fail.
initialise_pubsub(self, outcome) ==
    IF self.redis # "none" /\ outcome = "close_raises"
    THEN [self EXCEPT !.pubsub = "none"]
    ELSE [self EXCEPT !.redis = "open",
                      !.pubsub = IF outcome = "ok" THEN "subscribed" ELSE "created"]

\* _listen_loop, line 329: backoff = min(backoff * 2, max_backoff).
next_backoff(backoff, max_backoff) ==
    IF backoff * 2 < max_backoff THEN backoff * 2 ELSE max_backoff

\* The pipeline as it would be if start() installed the in-memory publisher
\* whatever the transport.
install_in_memory(p, publisher) == [p EXCEPT !.publisher = "memory"]

\* EventPipeline.start, lines 346 and 359: self._publisher = publisher.
install_publisher(p, publisher) == [p EXCEPT !.publisher = publisher]

\* EventPipeline.start, lines 344-351: in memory mode the in-memory publisher
\* is installed and start returns; otherwise a new subscriber is installed
\* and its start() is awaited.
PipelineStart ==
    /\ pipeline.pc = "idle"
    /\ pipeline.publisher = "none"
    /\ pipeline.starts < MaxStarts
    /\ IF settings.event_transport = "memory"
       THEN /\ pipeline' = [install_publisher(pipeline, "memory") EXCEPT
                               !.last = "started", !.error = "none", !.starts = @ + 1]
            /\ UNCHANGED subscriber
       ELSE /\ pipeline' = [pipeline EXCEPT !.subscriber = "set",
                                            !.pc = "subscriber_start",
                                            !.error = "none", !.starts = @ + 1]
            /\ subscriber' = NewSubscriber
    /\ UNCHANGED <<settings, requests, cacheVars, shutdownVars, rabbit, workerVars, pubsub, registryVars, memoryVars>>

\* RedisActivitySubscriber.start, lines 262-266: the subscription is made and
\* the listen task created, with the initial delay as its backoff (line 302);
\* the subscription sees the messages published from now on. When subscribe
\* fails the error leaves start() and EventPipeline.start.
SubscriberStart(outcome) ==
    /\ pipeline.pc = "subscriber_start"
    /\ LET self == initialise_pubsub([subscriber EXCEPT !.stopped = FALSE], outcome)
       IN IF outcome = "ok"
          THEN /\ subscriber' = [self EXCEPT
                                   !.task = "running", !.loop = "listen",
                                   !.backoff = settings.reconnect_initial_delay_seconds]
               /\ relayPos' = Len(pubsub)
               /\ pipeline' = [pipeline EXCEPT !.pc = "publisher_start"]
          ELSE /\ subscriber' = self
               /\ pipeline' = [pipeline EXCEPT !.pc = "idle", !.last = "start_raised",
                                               !.error = "subscriber"]
               /\ UNCHANGED relayPos
    /\ UNCHANGED <<settings, requests, cacheVars, shutdownVars, rabbit, boards, activity_subscribers, lock, ws, bc, sse,
                   queues, workerVars, pubsub, memoryVars>>

\* RabbitMQEventPublisher.start, lines 154-158, awaited by EventPipeline.start,
\* lines 352-358: the connection is opened and the topology declared, and the
\* publisher is installed.
PublisherStart ==
    /\ pipeline.pc = "publisher_start"
    /\ rabbit' = [NewPublisher EXCEPT !.connection = "open", !.topology = TRUE]
    /\ pipeline' = [install_publisher(pipeline, "rabbit") EXCEPT
                       !.pc = "idle", !.last = "started"]
    /\ UNCHANGED <<settings, requests, cacheVars, shutdownVars, subscriber, workerVars, pubsub, registryVars, memoryVars>>

\* RedisActivitySubscriber.stop, lines 268-270: the stop event is set and the
\* listen task, if there is one, cancelled; stop then awaits the task.
enter_stop(self) == [self EXCEPT !.stopped = TRUE, !.call = "stop_task"]

\* RabbitMQEventPublisher.start raises, before the connection is open or after,
\* and EventPipeline.start, lines 355-356, calls the subscriber's stop().
PublisherStartRaises(connection) ==
    /\ pipeline.pc = "publisher_start"
    /\ rabbit' = [NewPublisher EXCEPT !.connection = connection]
    /\ pipeline' = [pipeline EXCEPT !.pc = "cleanup"]
    /\ subscriber' = enter_stop(subscriber)
    /\ UNCHANGED <<settings, requests, cacheVars, shutdownVars, workerVars, pubsub, registryVars, memoryVars>>

\* The subscriber's stop() has raised: the error leaves the call of
\* EventPipeline that awaited it, and _subscriber is not cleared. From the
\* except clause of start (lines 355-357) it is this error that is raised, not
\* the publisher's.
stop_raised(p) ==
    IF p.pc = "cleanup"
    THEN [p EXCEPT !.pc = "idle", !.last = "start_raised", !.error = "subscriber_stop"]
    ELSE [p EXCEPT !.pc = "idle", !.last = "stop_raised"]

\* The subscriber's stop() has returned: _subscriber is cleared, and start
\* re-raises the publisher's error (lines 357-358) or stop returns (line 366).
stop_returned(p) ==
    IF p.pc = "cleanup"
    THEN [p EXCEPT !.pc = "idle", !.subscriber = "none", !.last = "start_raised",
                   !.error = "publisher"]
    ELSE [p EXCEPT !.pc = "idle", !.subscriber = "none", !.last = "stopped"]

\* RedisActivitySubscriber.stop, lines 270-274: the cancelled task is awaited
\* and CancelledError suppressed, which ends a broadcast the task was in. A
\* task that had already ended with an exception hands that exception to the
\* await, and it leaves stop().
SubscriberStopTask ==
    /\ subscriber.call = "stop_task"
    /\ IF subscriber.task = "died"
       THEN /\ subscriber' = [subscriber EXCEPT !.call = "raised"]
            /\ pipeline' = stop_raised(pipeline)
            /\ UNCHANGED bc
       ELSE /\ subscriber' = [subscriber EXCEPT !.task = "none", !.loop = "none",
                                                !.call = "stop_close"]
            /\ bc' = IF subscriber.task = "running" THEN IdleBroadcast ELSE bc
            /\ UNCHANGED pipeline
    /\ UNCHANGED <<settings, requests, cacheVars, shutdownVars, rabbit, boards, activity_subscribers, lock, ws, relayPos,
                   sse, queues, workerVars, pubsub, memoryVars>>

\* RedisActivitySubscriber.stop, lines 275-282: the subscription is dropped
\* with every exception suppressed, then the connection is closed with none
\* suppressed: close() returns, or it raises and the error leaves stop().
SubscriberStopClose(outcome) ==
    /\ subscriber.call = "stop_close"
    /\ outcome = "close_raises" => subscriber.redis # "none"
    /\ IF outcome = "close_raises"
       THEN /\ subscriber' = [subscriber EXCEPT !.pubsub = "none", !.call = "raised"]
            /\ pipeline' = stop_raised(pipeline)
       ELSE /\ subscriber' = [subscriber EXCEPT !.pubsub = "none", !.redis = "none",
                                                !.call = "returned"]
            /\ pipeline' = stop_returned(pipeline)
    /\ UNCHANGED <<settings, requests, cacheVars, shutdownVars, rabbit, workerVars, pubsub, registryVars, memoryVars>>

\* The pipeline as it would be if stop() kept its publisher.
keep_publisher(p) == p

\* EventPipeline.stop, line 363: self._publisher = None.
clear_publisher(p) == [p EXCEPT !.publisher = "none"]

\* EventPipeline.stop, lines 360-366, up to its first await: the in-memory
\* publisher stops at once; the RabbitMQ publisher's stop() is awaited; with
\* no publisher the subscriber's stop() is awaited, and with neither stop
\* returns.
PipelineStop ==
    /\ pipeline.pc = "idle"
    /\ pipeline.last # "new"
    /\ \/ pipeline.publisher # "none"
       \/ pipeline.subscriber # "none"
       \/ pipeline.last # "stopped"
    /\ IF pipeline.publisher = "memory"
       THEN /\ pipeline' = [clear_publisher(pipeline) EXCEPT !.last = "stopped"]
            /\ UNCHANGED subscriber
       ELSE IF pipeline.publisher = "rabbit"
       THEN /\ pipeline' = [pipeline EXCEPT !.pc = "publisher_stop"]
            /\ UNCHANGED subscriber
       ELSE IF pipeline.subscriber # "none"
       THEN /\ pipeline' = [pipeline EXCEPT !.pc = "subscriber_stop"]
            /\ subscriber' = enter_stop(subscriber)
       ELSE /\ pipeline' = [pipeline EXCEPT !.last = "stopped"]
            /\ UNCHANGED subscriber
    /\ UNCHANGED <<settings, requests, cacheVars, shutdownVars, rabbit, workerVars, pubsub, registryVars, memoryVars>>

\* RabbitMQEventPublisher.stop, lines 167-174, awaited by EventPipeline.stop,
\* lines 361-365: channel and connection are closed and the fields cleared,
\* _publisher is cleared, and the subscriber's stop() is called. A close that
\* raises leaves the publisher as it was and the error leaves stop().
PublisherStop(outcome) ==
    /\ pipeline.pc = "publisher_stop"
    /\ IF outcome = "close_raises"
       THEN /\ pipeline' = [pipeline EXCEPT !.pc = "idle", !.last = "stop_raised"]
            /\ UNCHANGED <<rabbit, subscriber>>
       ELSE /\ rabbit' = [rabbit EXCEPT !.connection = "none", !.topology = FALSE]
            /\ IF pipeline.subscriber # "none"
               THEN /\ pipeline' = [clear_publisher(pipeline) EXCEPT
                                       !.pc = "subscriber_stop"]
                    /\ subscriber' = enter_stop(subscriber)
               ELSE /\ pipeline' = [clear_publisher(pipeline) EXCEPT
                                       !.pc = "idle", !.last = "stopped"]
                    /\ UNCHANGED subscriber
    /\ UNCHANGED <<settings, requests, cacheVars, shutdownVars, workerVars, pubsub, registryVars, memoryVars>>

\* EventPipeline.publish, lines 368-370: without a publisher the call raises
\* RuntimeError("Event pipeline has not been started.").
PublishNotStarted ==
    /\ pipeline.publisher = "none"
    /\ pipeline.rejected < MaxRejected
    /\ pipeline' = [pipeline EXCEPT !.rejected = @ + 1]
    /\ UNCHANGED <<settings, requests, cacheVars, shutdownVars, subscriber, rabbit, workerVars, pubsub, registryVars,
                   memoryVars>>

\* EventPipeline.publish, lines 368-372, with the RabbitMQ publisher
\* installed, and RabbitMQEventPublisher.publish, lines 176-192: the envelope
\* goes to the exchange.
DurablePublish(board_id, correlation_id) ==
    /\ pipeline.publisher = "rabbit"
    /\ rabbit.topology
    /\ Publish(board_id, correlation_id)

\* RabbitMQEventPublisher.publish, lines 190-192: the exchange refuses the
\* message or the connection is unavailable, and the error leaves publish.
DurablePublishRaises ==
    /\ pipeline.publisher = "rabbit"
    /\ rabbit.topology
    /\ rabbit.failed < MaxRejected
    /\ rabbit' = [rabbit EXCEPT !.failed = @ + 1]
    /\ UNCHANGED <<settings, requests, cacheVars, shutdownVars, pipeline, subscriber, workerVars, pubsub, registryVars,
                   memoryVars>>

\* _listen_loop, lines 306-327: listen() raises because the connection has
\* dropped, or a payload does not validate as an ActivityEvent; the loop logs
\* the error and sleeps for backoff seconds.
ListenError ==
    /\ subscriber.task = "running"
    /\ subscriber.loop = "listen"
    /\ bc.pc = "idle"
    /\ subscriber.faults < MaxErrors
    /\ subscriber' = [subscriber EXCEPT !.loop = "sleep", !.slept = subscriber.backoff,
                                        !.errors = @ + 1, !.faults = @ + 1]
    /\ UNCHANGED <<settings, requests, cacheVars, shutdownVars, pipeline, rabbit, workerVars, pubsub, registryVars,
                   memoryVars>>

\* _listen_loop, lines 328-330: after the sleep the backoff is doubled up to
\* the maximum and the subscription made anew; the loop then listens again
\* and sees the messages published from now on. An error of
\* _initialise_pubsub is raised inside the except clause: nothing catches it
\* and the task ends with it.
ListenResume(outcome) ==
    /\ subscriber.task = "running"
    /\ subscriber.loop = "sleep"
    /\ LET self == initialise_pubsub(
                       [subscriber EXCEPT
                          !.backoff = next_backoff(@, settings.reconnect_max_delay_seconds)],
                       outcome)
       IN IF outcome = "ok"
          THEN /\ subscriber' = [self EXCEPT !.loop = "listen"]
               /\ relayPos' = Len(pubsub)
          ELSE /\ subscriber' = [self EXCEPT !.task = "died", !.loop = "none"]
               /\ UNCHANGED relayPos
    /\ UNCHANGED <<settings, requests, cacheVars, shutdownVars, pipeline, rabbit, boards, activity_subscribers, lock, ws,
                   bc, sse, queues, workerVars, pubsub, memoryVars>>

\* A pipeline that start() has brought up with the RabbitMQ transport.
StartedDurable ==
    /\ settings = [event_transport |-> "rabbitmq",
                   reconnect_initial_delay_seconds |-> 1,
                   reconnect_max_delay_seconds |-> MaxDelay]
    /\ pipeline = [NewPipeline EXCEPT !.publisher = "rabbit", !.subscriber = "set",
                                      !.last = "started", !.starts = 1]
    /\ subscriber = [NewSubscriber EXCEPT !.task = "running", !.loop = "listen",
                                          !.pubsub = "subscribed", !.redis = "open",
                                          !.backoff = 1]
    /\ rabbit = [NewPublisher EXCEPT !.connection = "open", !.topology = TRUE]

\* A pipeline that start() has brought up with the in-memory transport.
StartedMemory ==
    /\ settings = [event_transport |-> "memory",
                   reconnect_initial_delay_seconds |-> 1,
                   reconnect_max_delay_seconds |-> MaxDelay]
    /\ pipeline = [NewPipeline EXCEPT !.publisher = "memory", !.last = "started",
                                      !.starts = 1]
    /\ subscriber = NewSubscriber
    /\ rabbit = NewPublisher

\* The start of a run with frames of any content.
MemoryInit ==
    /\ primary = <<>>
    /\ retry_queue = <<>>
    /\ dlq_queue = <<>>
    /\ handler = [s \in Slots |-> IdleHandler]
    /\ marked = {}
    /\ pubsub = <<>>
    /\ nextId = 1
    /\ hist = [i \in MsgIds |-> NoHist]
    /\ windowPubs = [k \in Keys |-> 0]
    /\ firstDelivery = <<>>
    /\ RegistryInit
    /\ CacheInit
    /\ consumer = StartedConsumer
    /\ frames \in [FrameIds -> FrameMessages]
    /\ NoEnvelopes
    /\ StartedMemory

Init ==
    /\ primary = <<>>
    /\ retry_queue = <<>>
    /\ dlq_queue = <<>>
    /\ handler = [s \in Slots |-> IdleHandler]
    /\ marked = {}
    /\ pubsub = <<>>
    /\ nextId = 1
    /\ hist = [i \in MsgIds |-> NoHist]
    /\ windowPubs = [k \in Keys |-> 0]
    /\ firstDelivery = <<>>
    /\ RegistryInit
    /\ CacheInit
    /\ consumer = StartedConsumer
    /\ frames = [i \in FrameIds |-> BoardMessage(AnyAction, None)]
    /\ NoEnvelopes
    /\ StartedDurable

\* ------------------------------------------------------- specifications

WorkerStep(s) ==
    \/ DecodeFailure(s)
    \/ IdempotencyCheck(s)
    \/ FanOut(s)
    \/ MarkProcessed(s)
    \/ Ack(s)
    \/ Return(s)

RedisRaises(s) ==
    \/ IdempotencyCheckRaises(s)
    \/ FanOutRaises(s)
    \/ MarkProcessedRaises(s)

BrokerStep ==
    \/ \E s \in Slots : Deliver(s)
    \/ RetryExpire

\* What the environment does: clients publish, Redis fails or expires a key.
PublisherStep ==
    \/ \E k \in Keys : Publish("b1", k)
    \/ \E body \in ForeignBodies(nextId), x \in RetryHeaderValues : ForeignPublish(body, x)

WorkerNext ==
    \/ PublisherStep
    \/ BrokerStep
    \/ \E s \in Slots : WorkerStep(s)
    \/ \E s \in Slots : RedisRaises(s)
    \/ \E k \in Keys : KeyExpire(k)

\* The consumer worker with its broker queues and its Redis.
WorkerSpec == Init /\ [][WorkerNext]_vars

\* The same under the scheduling asyncio and the broker give: a task that can
\* take its next step takes it, a ready message is delivered while the
\* prefetch window has room, and a retry message expires.
WorkerFairSpec ==
    /\ WorkerSpec
    /\ \A s \in Slots : WF_vars(WorkerStep(s))
    /\ WF_vars(BrokerStep)

\* The steps of the board_updates task of websocket c.
SocketStep(c) ==
    \/ ConnectCheck(c)
    \/ ConnectRegister(c)
    \/ Accept(c)
    \/ CloseLimit(c)
    \/ ReceiveDisconnect(c)
    \/ Disconnect(c)

\* What the client of websocket c does: it opens the socket on a board, with
\* or without the token, and leaves during the handshake or later.
ClientStep(c) ==
    \/ \E board_id \in Boards : Authenticate(c, board_id)
    \/ AuthenticateRejects(c)
    \/ \E state \in {"connecting", "connected"} : AcceptRaises(c, state)
    \/ ClientGone(c)

\* The steps of the relay task: _listen_loop awaits one broadcast at a time.
RelayStep ==
    \/ BroadcastSnapshot
    \/ \E c \in Conns : SendSkipsStale(c)
    \/ \E c \in Conns : SendJson(c)
    \/ BroadcastFinish

ListenerStep(q) ==
    \/ RegisterListener(q)
    \/ StreamEvent(q)
    \/ UnregisterListener(q)

RegistryNext ==
    \/ \E c \in Sockets : ClientStep(c)
    \/ \E c \in Sockets : SocketStep(c)
    \/ RelayStep
    \/ Reset
    \/ \E board_id \in Boards : ChannelPublish(board_id)

\* The connection registry with its endpoints and the relay, fed by the
\* activity channel.
RegistrySpec == Init /\ [][RegistryNext]_vars

\* A websocket request with a valid token, from the handshake to the end of
\* its handler: the client leaves after the handshake has completed.
SessionStep(c) ==
    \/ \E board_id \in Boards : Authenticate(c, board_id)
    \/ ClientGone(c)
    \/ SocketStep(c)

CapacityNext == \E c \in Conns : SessionStep(c)

\* The registry under connects and disconnects only: more websocket requests
\* than the cap admits, each connecting once and disconnecting when its
\* client leaves.
CapacitySpec == Init /\ [][CapacityNext]_vars

\* The websockets of the pipeline's run and of the streams' run.
Peers == {"w1", "w2"}

\* A websocket of a board from its handshake to the end of its handler, below
\* the connection cap.
ObserverStep(c) ==
    \/ \E board_id \in Boards : Authenticate(c, board_id)
    \/ ConnectCheck(c)
    \/ ConnectRegister(c)
    \/ Accept(c)
    \/ ClientGone(c)
    \/ ReceiveDisconnect(c)
    \/ Disconnect(c)

StreamNext ==
    \/ \E c \in Peers : ObserverStep(c)
    \/ \E q \in Listeners : ListenerStep(q)
    \/ RelayStep
    \/ \E board_id \in Boards : ChannelPublish(board_id)

\* The registry with websockets and SSE listeners coming and going while the
\* relay broadcasts the events of the activity channel.
StreamSpec == Init /\ [][StreamNext]_vars


\* The peer that leaves during the run; the other one stays.
Leavers == {"w2"}

\* A peer connects and submits valid frames.
PeerStep(c) ==
    \/ \E board_id \in Boards : Authenticate(c, board_id)
    \/ ConnectCheck(c)
    \/ ConnectRegister(c)
    \/ Accept(c)
    \/ \E k \in Keys : ClientPublish(c, k)

\* A peer's client goes away and its handler disconnects.
LeaverStep(c) ==
    \/ ClientGone(c)
    \/ ReceiveDisconnect(c)
    \/ Disconnect(c)

\* The worker on messages of the durable publisher, with a pub/sub channel
\* that may fail.
ConsumerStep(s) ==
    \/ IdempotencyCheck(s)
    \/ FanOut(s)
    \/ FanOutRaises(s)
    \/ MarkProcessed(s)
    \/ Ack(s)
    \/ Return(s)

\* The relay of the pipeline's run.
PeerRelayStep ==
    \/ BroadcastSnapshot
    \/ \E c \in Peers : SendSkipsStale(c)
    \/ \E c \in Peers : SendJson(c)
    \/ BroadcastFinish

PipelineNext ==
    \/ \E c \in Peers : PeerStep(c)
    \/ \E c \in Leavers : LeaverStep(c)
    \/ BrokerStep
    \/ \E s \in Slots : ConsumerStep(s)
    \/ PeerRelayStep

\* The whole path of an event: websocket handler, primary queue, worker,
\* activity channel, relay, broadcast, websocket peers.
PipelineSpec == Init /\ [][PipelineNext]_vars

MemoryNext ==
    \/ \E i \in FrameIds, board_id \in Boards : FromMessage(i, board_id)
    \/ \E n \in 1 .. MaxEnvelopes : MemoryPublish(n)
    \/ \E call \in 1 .. MaxPublishes : HandlerReturns(call)
    \/ \E call \in 1 .. MaxPublishes : HandlerRaises(call)

\* The API side with the in-memory transport: envelopes are made from client
\* frames and published to the handler.
MemorySpec == MemoryInit /\ [][MemoryNext]_vars

\* The start of a run before EventPipeline.start, with any settings.
LifecycleInit ==
    /\ primary = <<>>
    /\ retry_queue = <<>>
    /\ dlq_queue = <<>>
    /\ handler = [s \in Slots |-> IdleHandler]
    /\ marked = {}
    /\ pubsub = <<>>
    /\ nextId = 1
    /\ hist = [i \in MsgIds |-> NoHist]
    /\ windowPubs = [k \in Keys |-> 0]
    /\ firstDelivery = <<>>
    /\ RegistryInit
    /\ CacheInit
    /\ consumer = StartedConsumer
    /\ frames = [i \in FrameIds |-> BoardMessage(AnyAction, None)]
    /\ NoEnvelopes
    /\ settings \in SettingsSet
    /\ pipeline = NewPipeline
    /\ subscriber = NewSubscriber
    /\ rabbit = NewPublisher

\* The calls of the application's startup and shutdown.
StartStep ==
    \/ PipelineStart
    \/ \E outcome \in {"ok", "subscribe_raises"} : SubscriberStart(outcome)
    \/ PublisherStart
    \/ \E connection \in {"none", "open"} : PublisherStartRaises(connection)

StopStep ==
    \/ PipelineStop
    \/ \E outcome \in {"ok", "close_raises"} : PublisherStop(outcome)
    \/ SubscriberStopTask
    \/ \E outcome \in {"ok", "close_raises"} : SubscriberStopClose(outcome)

\* The publish calls of the websocket handlers.
PublishStep ==
    \/ PublishNotStarted
    \/ DurablePublish("b1", "k1")
    \/ DurablePublishRaises
    \/ FromMessage(1, "b1")
    \/ \E n \in 1 .. MaxEnvelopes : MemoryPublish(n)
    \/ \E call \in 1 .. MaxPublishes : HandlerReturns(call)

\* The listen task of the subscriber.
ListenStep ==
    \/ ListenError
    \/ \E outcome \in {"ok", "close_raises", "subscribe_raises"} : ListenResume(outcome)
    \/ BroadcastSnapshot
    \/ BroadcastFinish

LifecycleNext ==
    \/ StartStep
    \/ StopStep
    \/ PublishStep
    \/ ListenStep
    \/ ChannelPublish("b1")

LifecycleSpec == LifecycleInit /\ [][LifecycleNext]_vars

\* The credentials of the run's requests: a query parameter that is absent,
\* empty, right or wrong, with a header that is absent, has no token, has the
\* right token (also in capitals and with spaces around it), has a wrong
\* token, has another scheme, or is the bare token.
Credentials ==
    [query : {None, "", realtime_token, "wrong"},
     authorization : {<<>>, <<"Bearer">>, <<"Bearer", "">>,
                      <<"Bearer", realtime_token>>,
                      <<"BEARER", "", realtime_token, "">>,
                      <<"Bearer", "wrong">>, <<"Basic", realtime_token>>,
                      <<realtime_token>>}]

\* The websocket whose credentials vary, and the listener whose credentials
\* vary; the other requests carry the configured token.
Callers == {"w1"}
Subscribers == {"q1"}

\* A websocket request with any credentials, from the handshake to the end of
\* its handler.
CallerStep(c) ==
    \/ \E credentials \in Credentials : AuthenticateWith(c, "b1", credentials)
    \/ \E credentials \in Credentials : RejectWith(c, credentials)
    \/ ConnectCheck(c)
    \/ ConnectRegister(c)
    \/ Accept(c)
    \/ ClientPublish(c, "k1")
    \/ ClientGone(c)
    \/ ReceiveDisconnect(c)
    \/ Disconnect(c)

\* An activity_stream request with any credentials.
SubscriberStep(q) ==
    \/ \E credentials \in Credentials : RegisterListenerWith(q, credentials)
    \/ \E credentials \in Credentials : RejectListenerWith(q, credentials)
    \/ StreamEvent(q)
    \/ UnregisterListener(q)

AuthNext ==
    \/ \E c \in Callers : CallerStep(c)
    \/ \E c \in Peers \ Callers : ObserverStep(c)
    \/ PeerRelayStep
    \/ ChannelPublish("b1")

\* A websocket request with or without the token next to one that carries
\* it, while the relay broadcasts.
AuthSpec == Init /\ [][AuthNext]_vars

\* The relay when no websocket is connected.
QueueRelayStep ==
    \/ BroadcastSnapshot
    \/ BroadcastFinish

HttpAuthNext ==
    \/ \E q \in Subscribers : SubscriberStep(q)
    \/ \E q \in Listeners \ Subscribers : ListenerStep(q)
    \/ QueueRelayStep
    \/ ChannelPublish("b1")

\* An activity_stream request with or without the token next to one that
\* carries it, while the relay broadcasts.
HttpAuthSpec == Init /\ [][HttpAuthNext]_vars

\* A websocket from its handshake to the end of its handler, with frames of
\* every kind.
FrameStep(c) ==
    \/ ObserverStep(c)
    \/ ClientPublish(c, "k1")
    \/ ClientPublishFails(c)
    \/ \E kind \in {"invalid_json", "invalid_message"} : ReceiveRejected(c, kind)
    \/ ReceiveBinary(c)

FrameNext ==
    \/ \E c \in Callers : FrameStep(c)
    \/ \E c \in Peers \ Callers : ObserverStep(c)
    \/ StopStep

\* A websocket sending frames of every kind next to a peer, while the
\* pipeline is up and after it has been stopped.
FrameSpec == Init /\ [][FrameNext]_vars

\* An activity_stream request whose client may leave at any point: before
\* the stream has started or while it runs.
RequestStep(q) ==
    \/ ListenerStep(q)
    \/ StreamAborted(q)

SseNext ==
    \/ \E q \in Listeners : RequestStep(q)
    \/ QueueRelayStep
    \/ \E board_id \in Boards : ChannelPublish(board_id)

\* The activity streams alone, with the relay feeding their queues.
SseSpec == Init /\ [][SseNext]_vars

CacheNext ==
    \/ \E r \in Readers, k \in CacheKeys : CacheGet(r, k)
    \/ \E r \in Readers : CacheBuild(r)
    \/ \E r \in Readers : CacheStore(r)
    \/ \E k \in CacheKeys : CacheExpire(k)
    \/ TaskCommit
    \/ InvalidateScan
    \/ InvalidateDelete

\* The tasks API: cached reads running next to TaskService writes.
CacheSpec == Init /\ [][CacheNext]_vars

\* The steps of stop().
ConsumerStopStep ==
    \/ ConsumerStop
    \/ ConsumerStopCancel
    \/ ConsumerStopCloseChannel
    \/ ConsumerStopCloseConnection
    \/ ConsumerStopRedis
    \/ ConsumerStopClear

\* What an _on_message task does once stop() has closed the channel or
\* cleared the consumer's fields.
LateStep(s) ==
    \/ RejectUninitialised(s)
    \/ DecodeFailureAfterClose(s)
    \/ RepublishRaises(s)
    \/ RepublishSkipped(s)
    \/ AckAfterClose(s)

\* The messages of the run: envelopes of the durable publisher with one key,
\* and bytes of another client that do not decode.
ArrivalStep ==
    \/ Publish("b1", "k1")
    \/ \E body \in {b \in ForeignBodies(nextId) : b.fmt = "bad_utf8"} :
           ForeignPublish(body, Absent)

ShutdownNext ==
    \/ ArrivalStep
    \/ \E s \in Slots : Deliver(s)
    \/ \E s \in Slots : WorkerStep(s)
    \/ \E s \in Slots : RedisRaises(s)
    \/ \E s \in Slots : LateStep(s)
    \/ ConsumerStopStep
    \/ WorkerRestart

\* The worker with messages in flight while stop() runs, and the worker
\* process that is started after it.
ShutdownSpec == Init /\ [][ShutdownNext]_vars

\* The messages of the run: one envelope of the durable publisher, then bytes
\* of another client that do not decode.
RedeliveryArrival ==
    \/ nextId = 1 /\ Publish("b1", "k1")
    \/ /\ nextId > 1
       /\ \E body \in {b \in ForeignBodies(nextId) : b.fmt = "bad_utf8"} :
              ForeignPublish(body, Absent)

RedeliveryNext ==
    \/ RedeliveryArrival
    \/ BrokerStep
    \/ \E s \in Slots : WorkerStep(s)
    \/ \E s \in Slots : RedisRaises(s)
    \/ \E s \in Slots : LateStep(s)
    \/ ConsumerStopStep
    \/ WorkerRestart

\* The worker with its retry queue, stopped with messages in flight and
\* started again: the broker redelivers what was left unacknowledged.
RedeliverySpec == Init /\ [][RedeliveryNext]_vars

\* ----------------------------------------------------------- claims

Finished(s) == handler[s].pc \in {"done", "raised"}
AtAck(s) == handler[s].pc \in {"ack", "done"}

\* The x-retry-count of a delivery as the claims read it: absent or unparsable
\* counts as 0.
CountOf(message) ==
    LET x == message.headers.x_retry_count IN
    IF x.tag = "int" THEN x.n ELSE 0

\* C2: for every idempotency key, the worker publishes at most one event to the
\* pub/sub channel while the key's TTL window lasts, however many deliveries
\* carry the key.
C2_AtMostOncePerKey == \A k \in Keys : windowPubs[k] <= 1

\* The dead-letter queue only grows: nothing consumes it or routes out of it.
DlqKeeps ==
    /\ Len(dlq_queue') >= Len(dlq_queue)
    /\ \A i \in DOMAIN dlq_queue : dlq_queue'[i] = dlq_queue[i]

C4_AckedExactlyOnce ==
    \A s \in Slots :
        /\ handler[s].acks <= 1
        /\ Finished(s) => handler[s].acks = 1

\* C5: on a fan-out failure of a delivery with x-retry-count c, the worker has
\* published exactly one copy: to the retry exchange with count c + 1 when
\* c < MaxRetries, to the dead-letter exchange with count c otherwise; the copy
\* has the body of the delivery and last-error set, and the delivery is then
\* acknowledged.
C5_FailureRouting ==
    \A s \in Slots :
        handler[s].path = "failure" =>
            LET m == handler[s].msg
                c == CountOf(m)
                exchange == IF c < MaxRetries THEN "retry" ELSE "dlq"
                count == IF c < MaxRetries THEN c + 1 ELSE c
                copy == [id |-> m.id, origin |-> m.origin, body |-> m.body,
                         headers |-> [m.headers EXCEPT
                                        !.x_retry_count = Count(count),
                                        !.last_error = TRUE]]
            IN
            /\ AtAck(s)
            /\ handler[s].out = <<[exchange |-> exchange, msg |-> copy]>>
            /\ handler[s].pc = "done" => handler[s].acks = 1

C5_Witness ==
    \E s, t \in Slots :
        /\ handler[s].path = "failure" /\ handler[s].pc = "done"
        /\ handler[s].msg.headers.x_retry_count = Junk
        /\ handler[s].out[1].exchange = "retry"
        /\ handler[t].path = "failure" /\ handler[t].pc = "done"
        /\ handler[t].out[1].exchange = "dlq"

\* Every message record in a queue or held by a handler.
InSystem ==
    {primary[i] : i \in DOMAIN primary} \cup {retry_queue[i] : i \in DOMAIN retry_queue}
        \cup {dlq_queue[i] : i \in DOMAIN dlq_queue}
        \cup {handler[s].msg : s \in {t \in Slots : handler[t].pc # "idle"}}

\* C6: a delivery whose body does not decode is forwarded, body unchanged and
\* failure_reason set, to the dead-letter exchange only, and acknowledged; it is
\* never on the retry queue, never fanned out, and marks no key, whatever its
\* x-retry-count.
C6_DecodeFailure ==
    /\ \A s \in Slots :
        (handler[s].pc \notin {"idle", "start"} /\ handler[s].msg.body.fmt # "envelope") =>
            LET m == handler[s].msg IN
            /\ AtAck(s)
            /\ handler[s].path = "invalid"
            /\ handler[s].out =
                    <<[exchange |-> "dlq",
                       msg |-> [id |-> m.id, origin |-> m.origin, body |-> m.body,
                                headers |-> [m.headers EXCEPT
                                               !.failure_reason = TRUE]]]>>
            /\ handler[s].fanned = 0
            /\ handler[s].marks = 0
            /\ handler[s].pc = "done" => handler[s].acks = 1
    /\ \A m \in InSystem :
        m.body.fmt # "envelope" =>
            /\ ~InSeq(retry_queue, m.id)
            /\ \A i \in DOMAIN pubsub : pubsub[i].id # m.id
            /\ ~hist[m.id].succeeded
            /\ hist[m.id].failed = 0
            /\ hist[m.id].consumed <= 1

C6_Witness ==
    \E s \in Slots :
        /\ handler[s].pc = "done"
        /\ handler[s].msg.body.fmt = "bad_schema"
        /\ handler[s].msg.headers.x_retry_count = Count(MaxRetries)
        /\ InSeq(dlq_queue, handler[s].msg.id)

\* C7: a publisher's message whose fan-out has failed at most MaxRetries times
\* has no copy in the dead-letter queue; when an attempt succeeds, its event is
\* on the pub/sub channel, its key was marked by that attempt, no copy of it is
\* left on any queue, and the delivery is eventually acknowledged.
C7_TransientFailure ==
    /\ [](\A id \in MsgIds :
            (hist[id].origin = "publisher" /\ hist[id].failed <= MaxRetries)
                => ~InSeq(dlq_queue, id))
    /\ [](\A s \in Slots :
            handler[s].path = "success" =>
                LET m == handler[s].msg IN
                /\ \E i \in DOMAIN pubsub : pubsub[i].id = m.body.event_id
                /\ handler[s].fanned = 1
                /\ handler[s].marks = 1
                /\ handler[s].out = <<>>
                /\ ~InSeq(primary, m.id) /\ ~InSeq(retry_queue, m.id)
                /\ hist[m.id].origin = "publisher" => ~InSeq(dlq_queue, m.id))
    /\ \A s \in Slots :
            (handler[s].path = "success" /\ handler[s].pc = "ack")
                ~> (handler[s].pc = "done" /\ handler[s].acks = 1)

C7_Witness ==
    \E s \in Slots :
        /\ handler[s].path = "success" /\ handler[s].pc = "done"
        /\ hist[handler[s].msg.id].origin = "publisher"
        /\ hist[handler[s].msg.id].failed = MaxRetries

\* C8: a delivery whose idempotency key is set when the worker asks is
\* acknowledged and dropped: nothing goes to pub/sub, to the retry exchange or
\* to the dead-letter exchange, no error is raised, and the handler sets no key.
C8_DuplicateDropped ==
    \A s \in Slots :
        handler[s].keyWasMarked =>
            /\ AtAck(s)
            /\ handler[s].path = "duplicate"
            /\ handler[s].out = <<>>
            /\ handler[s].fanned = 0
            /\ handler[s].marks = 0
            /\ handler[s].pc = "done" => handler[s].acks = 1

C8_Witness ==
    \E s \in Slots :
        /\ handler[s].keyWasMarked
        /\ handler[s].pc = "done"
        /\ handler[s].acks = 1

\* C1: the registry never holds more than MaxConnections websockets, summed
\* over all boards, whatever the interleaving of connect, disconnect, broadcast
\* and reset; the cap check and the registration of a connect form one
\* critical section: between them the lock is held by that connect, and the
\* total it compared with the cap is still below the cap when it registers.
C1_ConnectionCap ==
    /\ total_connections(boards) <= MaxConnections
    /\ \A c \in Conns :
        ws[c].pc = "register" =>
            /\ lock = c
            /\ total_connections(boards) < MaxConnections
    /\ lock # "free" => ws[lock].pc = "register"

C1_Witness ==
    /\ total_connections(boards) = MaxConnections
    /\ \A board_id \in Boards : board_get(boards, board_id) # {}
    /\ \E c \in Conns : ws[c].pc = "close"
    /\ bc.pc = "idle" /\ relayPos = 1

\* What C10 says of one step of the connect call of websocket c.
C10_ConnectStep(c) ==
    LET board_id == ws[c].board
        at_cap == total_connections(boards) >= MaxConnections
    IN
    /\ (ws[c].pc = "connect" /\ ws'[c].pc # "connect") =>
            /\ ws'[c].pc = IF at_cap THEN "close" ELSE "register"
            /\ boards' = boards
            /\ activity_subscribers' = activity_subscribers
            /\ at_cap => lock' = lock
    /\ (ws[c].pc = "register" /\ ws'[c].pc # "register") =>
            /\ ~at_cap
            /\ ws'[c].pc = "accept"
            /\ DOMAIN boards' = DOMAIN boards \cup {board_id}
            /\ \A b \in DOMAIN boards' :
                boards'[b] = IF b = board_id
                             THEN board_get(boards, b) \cup {c}
                             ELSE boards[b]
            /\ ws'[c].active = Cardinality(board_get(boards, board_id) \cup {c})
    /\ (ws[c].pc = "accept" /\ ws'[c].pc = "accept") => ws'[c].active = ws[c].active

FirstFanOut(id) ==
    CHOOSE i \in DOMAIN pubsub :
        pubsub[i].id = id /\ \A j \in DOMAIN pubsub : pubsub[j].id = id => i <= j

FannedOut(id) == \E i \in DOMAIN pubsub : pubsub[i].id = id

\* C9 as it was stated: of two messages of one board, neither ever retried,
\* the one the broker delivered first is the one the worker fans out first.
C9_FanOutFollowsDelivery ==
    \A i, j \in DOMAIN firstDelivery :
        LET e1 == firstDelivery[i]
            e2 == firstDelivery[j]
        IN (/\ i < j
            /\ FannedOut(e1) /\ FannedOut(e2)
            /\ hist[e1].failed = 0 /\ hist[e2].failed = 0
            /\ pubsub[FirstFanOut(e1)].board = pubsub[FirstFanOut(e2)].board)
                => FirstFanOut(e1) < FirstFanOut(e2)

\* C9: the relay hands the events of the activity channel to broadcast one at a
\* time and in the order the worker published them, each to the websockets of
\* the event's own board; so the sends to the peers of a board are attempted in
\* channel order, whatever the order of the broker's deliveries was.
C9_BroadcastsFollowChannel ==
    [][/\ relayPos' # relayPos =>
            /\ relayPos' = relayPos + 1
            /\ relayPos' \in DOMAIN pubsub
            /\ bc.pc = "idle" /\ bc'.pc = "send"
            /\ bc'.seq = pubsub[relayPos'].seq
            /\ bc'.board = pubsub[relayPos'].board
            /\ bc'.snapshot = board_get(boards, pubsub[relayPos'].board)
       /\ bc'.pc = "send" => bc'.seq = relayPos']_vars

C9_Witness ==
    /\ firstDelivery = <<1, 2>>
    /\ Len(pubsub) = 2
    /\ pubsub[1].id = 2 /\ pubsub[2].id = 1
    /\ relayPos = 2
    /\ bc.pc = "send" /\ bc.seq = 2
    /\ bc.snapshot = Peers /\ bc.todo = Peers

\* The websockets whose handler stands between its registration and its
\* disconnect, and those whose connect was refused.
Registered == {c \in Conns : ws[c].pc \in {"accept", "receive", "disconnect"}}
Refused == {c \in Conns : ws[c].outcome = "limit"}
PastCheck == {c \in Conns : ws[c].pc \notin {"new", "connect"}}

\* What C11 says of one step of the handler of websocket c.
C11_Step(c) ==
    /\ (ws[c].pc = "connect" /\ ws'[c].pc # "connect") =>
            (ws'[c].pc = "register" <=> Cardinality(Registered) < MaxConnections)
    /\ (ws[c].pc = "register" /\ ws'[c].pc # "register") =>
            c \in board_get(boards', ws[c].board)
    /\ (ws[c].pc = "disconnect" /\ ws'[c].pc = "ended") =>
            /\ total_connections(boards') = total_connections(boards) - 1
            /\ total_connections(boards') < MaxConnections
            /\ \A b \in DOMAIN boards' : c \notin boards'[b]

\* C11: with connects and disconnects only, starting from the empty registry,
\* the first MaxConnections connects succeed and every connect beyond them is
\* refused as long as nothing has disconnected; the registry holds exactly the
\* connected websockets; a disconnect takes one off the total, so that the
\* next connect finds the total below the cap and succeeds.
C11_Capacity ==
    /\ []((\A c \in Conns : ws[c].disconnects = 0) =>
            Cardinality(Refused) =
                IF Cardinality(PastCheck) > MaxConnections
                THEN Cardinality(PastCheck) - MaxConnections
                ELSE 0)
    /\ [](total_connections(boards) = Cardinality(Registered))
    /\ [][\A c \in Conns : C11_Step(c)]_vars

C11_Witness ==
    /\ \E c \in Conns : ws[c].outcome = "limit" /\ ws[c].pc = "ended"
    /\ \E c \in Conns : ws[c].disconnects = 1
    /\ ws["w4"].pc = "receive"
    /\ Cardinality({c \in Conns : ws[c].outcome = "accepted"}) = MaxConnections + 1

\* What C12 says of registry after, the result of disconnect(board_id, c) on
\* registry before.
C12_Removal(before, after, board_id, c) ==
    /\ c \notin board_get(before, board_id) => after = before
    /\ board_get(after, board_id) = board_get(before, board_id) \ {c}
    /\ \A x \in Boards \ {board_id} :
            /\ x \in DOMAIN after <=> x \in DOMAIN before
            /\ board_get(after, x) = board_get(before, x)
    /\ c \in board_get(before, board_id) =>
            (board_id \in DOMAIN after <=> before[board_id] \ {c} # {})

\* C12: disconnect(board_id, c) on any registry the program reaches, for any
\* board and websocket: nothing changes when c is not on that board; a second
\* call changes nothing more; only c leaves, and only that board; the entry
\* goes when its set has become empty.  The handler's own disconnect does
\* just that and returns.
C12_IdempotentRemoval ==
    /\ [](\A board_id \in Boards, c \in Conns :
            LET once == board_discard(boards, board_id, c) IN
            /\ C12_Removal(boards, once, board_id, c)
            /\ board_discard(once, board_id, c) = once)
    /\ [][\A c \in Conns :
            (ws[c].pc = "disconnect" /\ ws'[c].pc # "disconnect") =>
                /\ ws'[c].pc = "ended"
                /\ C12_Removal(boards, boards', ws[c].board, c)]_vars

C12_Witness ==
    \E c, d \in Conns :
        /\ ws[c].disconnects = 1 /\ ws[d].disconnects = 1
        /\ ws[c].board = "b1" /\ ws[d].board = "b2"
        /\ DOMAIN boards = {"b1"}
        /\ boards["b1"] = {}

\* C13: when a broadcast ends whose snapshot held n websockets of the event's
\* board, the clients of all of them being there, each of the n has received
\* the event, with active_connections = n.
C13_EveryPeerReceives ==
    [][(/\ bc.pc = "send" /\ bc'.pc = "idle"
        /\ \A c \in bc.snapshot : ws[c].client = "live")
            => \A c \in bc.snapshot :
                    /\ ws[c].inbox # <<>>
                    /\ ws[c].inbox[Len(ws[c].inbox)] = bc.seq
                    /\ ws[c].seen_active = Cardinality(bc.snapshot)]_vars

\* C14: a broadcast that has found a dead peer, a websocket that is not open or
\* whose send failed, still goes through the rest of its snapshot, puts the
\* event on every listener queue of its snapshot and returns normally.
C14_DeadPeerTolerated ==
    [][(bc.pc = "send" /\ bc'.pc = "idle" /\ bc.stale # {}) =>
            /\ bc.todo = {}
            /\ \A i \in DOMAIN bc.listeners :
                    queues'[bc.listeners[i]] = Append(queues[bc.listeners[i]], bc.seq)]_vars

C16_EveryListenerServed ==
    [][/\ (bc.pc = "send" /\ bc'.pc = "idle") =>
            \A i \in DOMAIN bc.listeners :
                queues'[bc.listeners[i]] = Append(queues[bc.listeners[i]], bc.seq)
       /\ \A q \in Listeners :
            (queues[q] # <<>> /\ queues'[q] = Tail(queues[q])) =>
                /\ sse'[q] = "streaming"
                /\ \A r \in Listeners \ {q} : queues'[r] = queues[r]]_vars

\* C19: is_processed(k) becomes true only by a mark_processed(k) call, is true
\* as soon as that call has returned, stays true until the key's TTL expires,
\* and a call for k changes the answer for no other key.
C19_StoreStep ==
    [][\A k \in Keys :
        LET marking(s) == /\ handler[s].pc = "mark"
                          /\ handler'[s].marks = handler[s].marks + 1
                          /\ handler[s].msg.body.idempotency_key = k
        IN /\ (~is_processed(k) /\ namespaced(k) \in marked') => \E s \in Slots : marking(s)
           /\ (\E s \in Slots : marking(s)) => namespaced(k) \in marked'
           /\ (is_processed(k) /\ namespaced(k) \notin marked') =>
                    /\ handler' = handler
                    /\ \A j \in Keys \ {k} : namespaced(j) \in marked' <=> is_processed(j)]_vars

C19_Witness ==
    \E s \in Slots, k \in Keys :
        /\ handler[s].pc = "ack" /\ handler[s].marks = 1
        /\ is_processed(handler[s].msg.body.idempotency_key)
        /\ handler[s].msg.body.idempotency_key # k
        /\ ~is_processed(k)

\* What from_message has made of the messages it was given.
EnvelopesOfMessages ==
    \A x \in DOMAIN envelopes :
        LET m == frames[envelopes[x].frame]
            e == envelopes[x].envelope
        IN /\ e.message.correlation_id = e.correlation_id
           /\ e.message.action = m.action
           /\ ~Falsy(m.correlation_id) => e.correlation_id = m.correlation_id
           /\ Falsy(m.correlation_id) =>
                /\ ~Falsy(e.correlation_id)
                /\ e.correlation_id \notin Keys
                /\ e.correlation_id # e.event_id
                /\ \A y \in DOMAIN envelopes \ {x} :
                        /\ envelopes[y].envelope.correlation_id # e.correlation_id
                        /\ envelopes[y].envelope.event_id # e.correlation_id

\* C17: the envelope from_message makes of a message m carries one correlation
\* id, in the envelope and in its copy of the message: m's own when m has a
\* non-empty one, a fresh non-empty identifier otherwise; m is left as it was.
C17_EnvelopeCorrelation ==
    [][frames' = frames /\ EnvelopesOfMessages']_vars

C17_Witness ==
    /\ Len(envelopes) = 2
    /\ frames[envelopes[1].frame].correlation_id = None
    /\ envelopes[1].envelope.correlation_id = uuid4(1)
    /\ frames[envelopes[2].frame].correlation_id = "k1"
    /\ envelopes[2].envelope.message.correlation_id = "k1"

\* C20: in memory mode every publish call has called the handler exactly once,
\* while the call was running, with an event that has the envelope's board,
\* action, event id and correlation id; an envelope published twice is handed
\* to the handler twice.
C20_MemoryFanOut ==
    /\ Len(received) = Len(publishes)
    /\ \A call \in DOMAIN publishes :
        LET e == envelopes[publishes[call].envelope].envelope
            got == {r \in DOMAIN received : received[r].call = call}
        IN /\ Cardinality(got) = 1
           /\ \A r \in got :
                /\ received[r].event.board = e.board_id
                /\ received[r].event.action = e.message.action
                /\ received[r].event.id = e.event_id
                /\ received[r].event.correlation_id = e.correlation_id

C20_Witness ==
    \E c1, c2 \in DOMAIN publishes :
        /\ c1 < c2
        /\ publishes[c1].envelope = publishes[c2].envelope
        /\ publishes[c1].pc = "returned" /\ publishes[c2].pc = "returned"
        /\ received[c1].event.id = received[c2].event.id
        /\ frames[envelopes[publishes[c1].envelope].frame] = BoardMessage("card.added", "")

\* C18: every envelope in the system, made by from_message or decoded by the
\* consumer from the body of a broker message, has idempotency_key equal to
\* correlation_id.
C18_KeyIsCorrelationId ==
    /\ \A x \in DOMAIN envelopes :
            envelopes[x].envelope.idempotency_key = envelopes[x].envelope.correlation_id
    /\ \A m \in InSystem :
            Decodable(m.body) => m.body.idempotency_key = m.body.correlation_id


\* The pipeline is between two calls and has no publisher it should not have:
\* none before start(), after a stop() that returned and after a start() that
\* raised, and after a start() that returned the publisher of its transport.
PublisherMatchesLifecycle ==
    pipeline.pc = "idle" =>
        /\ pipeline.last \in {"new", "stopped", "start_raised"}
              => pipeline.publisher = "none"
        /\ pipeline.last = "started"
              => pipeline.publisher =
                    IF settings.event_transport = "memory" THEN "memory" ELSE "rabbit"

\* C21: publish raises the "not started" error, and no publisher gets the
\* envelope, whenever the pipeline has no publisher, which is the case before
\* start(), after stop() and after a start() that failed; after a start() that
\* succeeded the envelope goes to the one publisher of the transport, the
\* in-memory one in memory mode and the RabbitMQ one otherwise.
C21_PublishNeedsPublisher ==
    /\ []PublisherMatchesLifecycle
    /\ [][/\ pipeline.publisher = "none"
             => primary' = primary /\ Len(publishes') = Len(publishes) /\ received' = received
          /\ pipeline'.rejected # pipeline.rejected
             => pipeline.publisher = "none"
          /\ primary' # primary
             => pipeline.publisher = "rabbit" /\ settings.event_transport = "rabbitmq"
          /\ received' # received
             => pipeline.publisher = "memory" /\ settings.event_transport = "memory"]_vars

\* An envelope was published, the pipeline stopped, a second start() raised,
\* and a publish call was then refused.
C21_Witness ==
    /\ pipeline.rejected = 1
    /\ pipeline.last = "start_raised"
    /\ pipeline.pc = "idle"
    /\ primary # <<>>


\* C22: in durable mode the subscriber is started before the publisher and
\* the publisher stopped before the subscriber: whenever the pipeline has its
\* RabbitMQ publisher, the subscriber's start() has returned and its stop() has
\* not been called; and once stop() has returned the pipeline has neither,
\* and the subscriber holds no task, no subscription and no connection.
C22_SubscriberOutlivesPublisher ==
    /\ pipeline.publisher = "rabbit"
       => /\ pipeline.subscriber = "set"
          /\ subscriber.task # "none"
          /\ ~subscriber.stopped
          /\ subscriber.call = "idle"
    /\ pipeline.pc = "idle" /\ pipeline.last = "stopped"
       => /\ pipeline.publisher = "none"
          /\ pipeline.subscriber = "none"
          /\ ~rabbit.topology
          /\ subscriber.task = "none"
          /\ subscriber.pubsub = "none"
          /\ subscriber.redis = "none"

\* stop() has returned in durable mode after an envelope went to the exchange.
C22_Witness ==
    /\ settings.event_transport = "rabbitmq"
    /\ pipeline.pc = "idle"
    /\ pipeline.last = "stopped"
    /\ subscriber.stopped
    /\ primary # <<>>


\* C23: in durable mode, when the publisher's startup has failed after the
\* subscriber was started, start() leaves the pipeline with no publisher and
\* no subscriber, no listen task is running, and the error start() raises is
\* the publisher's.
C23_RollbackOnPublisherFailure ==
    /\ pipeline.pc = "idle"
    /\ pipeline.last = "start_raised"
    /\ pipeline.error # "subscriber"
    => /\ pipeline.publisher = "none"
       /\ pipeline.subscriber = "none"
       /\ subscriber.task = "none"
       /\ pipeline.error = "publisher"


\* C28: once started, the listen loop ends only through stop(): a loop-level
\* error, a failure to re-establish the subscription included, never ends the
\* task.
C28_LoopEndsOnlyOnStop ==
    subscriber.task = "died" => subscriber.stopped

RECURSIVE pow2(_)
pow2(n) == IF n = 0 THEN 1 ELSE 2 * pow2(n - 1)

\* C29: with d0 <= dmax, the delay the loop sleeps after the k-th consecutive
\* loop-level error, counted since it last handed a message to the handler,
\* is min(d0 * 2^(k-1), dmax).
C29_BackoffDelay ==
    subscriber.loop = "sleep" =>
        LET d0 == settings.reconnect_initial_delay_seconds
            dmax == settings.reconnect_max_delay_seconds
            k == subscriber.errors
        IN subscriber.slept = IF d0 * pow2(k - 1) < dmax THEN d0 * pow2(k - 1) ELSE dmax

\* C30: the subscriber's stop() never raises, whatever unsubscribe and close
\* do, and once it has returned the subscriber holds no listen task, no
\* subscription and no connection and the handler is not running.
C30_StopNeverRaises ==
    /\ subscriber.call # "raised"
    /\ subscriber.call = "returned"
       => /\ subscriber.task = "none"
          /\ subscriber.pubsub = "none"
          /\ subscriber.redis = "none"
          /\ bc.pc = "idle"


\* The request carries the configured token, as its query parameter or as the
\* token of a Bearer header.
CarriesToken(credentials) ==
    \/ credentials.query = realtime_token
    \/ /\ Len(credentials.authorization) >= 2
       /\ Head(credentials.authorization) \in {"Bearer", "bearer", "BEARER"}
       /\ strip(Tail(credentials.authorization)) = <<realtime_token>>

\* C24: a websocket request that carries the configured token neither as its
\* query parameter nor in a Bearer header is closed with 4401 and its handler
\* ends there: the websocket is never accepted, never in a board of the
\* registry nor in a broadcast's snapshot, never at the point where frames
\* are received and published, and it receives no event.
C24_UnauthorizedWebSocket ==
    \A c \in Conns :
        ws[c].pc # "new" /\ ~CarriesToken(ws[c].credentials)
        => /\ ws[c].outcome = "unauthorized"
           /\ ws[c].close_code = UNAUTHORIZED_CLOSE_CODE
           /\ ws[c].pc = "ended"
           /\ ws[c].application_state = "disconnected"
           /\ ws[c].active = 0
           /\ ws[c].disconnects = 0
           /\ ws[c].inbox = <<>>
           /\ \A b \in DOMAIN boards : c \notin boards[b]
           /\ c \notin bc.snapshot

\* A request with the token under the scheme Basic was refused, and the relay
\* has since broadcast to the board while a peer was registered on it.
C24_Witness ==
    /\ ws["w1"].outcome = "unauthorized"
    /\ ws["w1"].credentials.authorization = <<"Basic", realtime_token>>
    /\ ws["w1"].credentials.query = ""
    /\ bc.pc = "send"
    /\ "w2" \in bc.snapshot

\* C25: an activity_stream request that carries the configured token neither
\* as its query parameter nor in a Bearer header is answered with 401: no
\* queue is registered for it, none is in a broadcast's snapshot, and it gets
\* no event.
C25_UnauthorizedStream ==
    \A q \in Listeners :
        sse[q] # "new" /\ ~CarriesToken(requests[q])
        => /\ sse[q] = "401"
           /\ \A i \in DOMAIN activity_subscribers : activity_subscribers[i] # q
           /\ \A i \in DOMAIN bc.listeners : bc.listeners[i] # q
           /\ queues[q] = <<>>

\* A request with a wrong token was answered with 401, and the relay has since
\* put an event on the queue of a listener that carried the token.
C25_Witness ==
    /\ sse["q1"] = "401"
    /\ requests["q1"].query = "wrong"
    /\ requests["q1"].authorization = <<"Bearer", realtime_token>>
    /\ queues["q2"] # <<>>


\* Websocket c has just taken a frame of one of these kinds off the socket.
TookFrame(c, kinds) ==
    /\ Len(ws'[c].bad) = Len(ws[c].bad) + 1
    /\ ws'[c].bad[Len(ws'[c].bad)] \in kinds

\* Websocket c got one error frame with this reason, and no other websocket
\* got any; c is open, registered and in its receive loop as before, and
\* nothing went to the exchange.
AnsweredInBand(c, reason) ==
    /\ ws'[c].errors = Append(ws[c].errors, reason)
    /\ \A d \in Conns \ {c} : ws'[d].errors = ws[d].errors
    /\ ws'[c].pc = "receive"
    /\ ws'[c].application_state = "connected"
    /\ ws'[c].client = "live"
    /\ c \in board_get(boards', ws[c].board)
    /\ boards' = boards
    /\ primary' = primary

\* C26: every frame of a connected websocket that is no valid JSON, or that
\* violates the BoardMessage schema, is answered with one error frame
\* (invalid_json or validation_error) to that client only; the socket stays
\* open and registered, nothing is published for the frame, and the handler
\* goes on receiving.
C26_MalformedFrameAnswered ==
    [][\A c \in Conns :
          /\ TookFrame(c, {"invalid_json", "binary"})
             => AnsweredInBand(c, "invalid_json")
          /\ TookFrame(c, {"invalid_message"})
             => AnsweredInBand(c, "validation_error")]_vars

\* C27: when publishing an envelope fails, for want of a started publisher or
\* of the broker, the handler sends one event_bus_failure frame to the client
\* the frame came from, publishes nothing for it, and goes on receiving with
\* the websocket open and registered; and no publish fails without such a
\* frame.
C27_PublishFailureReported ==
    [][/\ \A c \in Conns :
            TookFrame(c, {"publish_failed"}) => AnsweredInBand(c, "event_bus_failure")
       /\ pipeline'.rejected # pipeline.rejected \/ rabbit'.failed # rabbit.failed
          => \E c \in Conns : TookFrame(c, {"publish_failed"})]_vars

\* A websocket published a frame, was told of a publish the broker refused,
\* and after the pipeline had stopped was told of a second failed publish.
C27_Witness ==
    /\ ws["w1"].errors = <<"event_bus_failure", "event_bus_failure">>
    /\ rabbit.failed = 1
    /\ pipeline.rejected = 1
    /\ primary # <<>>
    /\ ws["w1"].pc = "receive"


\* Websocket c is in the set of some board of the registry.
Member(c) == \E board_id \in DOMAIN boards : c \in boards[board_id]

\* C31: once the board_updates task of a websocket has ended, by whatever
\* path (refused token, connection limit, failed accept, client disconnect),
\* the websocket is in no board's set of the registry.
C31_EndedHandlerNotRegistered ==
    \A c \in Conns : ws[c].pc = "ended" => ~Member(c)


\* C32: once an activity_stream request is over (the stream has ended, or
\* the client left before it started), its queue is no longer in the
\* registry's listener list.
C32_FinishedRequestUnregistered ==
    \A q \in Listeners :
        sse[q] \in {"ended", "aborted", "401"} =>
            \A i \in DOMAIN activity_subscribers : activity_subscribers[i] # q


\* C33: a read that began after a write had returned reflects that write:
\* what it returns was built from the tasks table as it was after the
\* commits of all the writes that had returned when the read began.
C33_ReadReflectsWrites ==
    \A r \in Readers : reads[r].pc = "done" => reads[r].result >= reads[r].since


\* The task has handed its delivery on: it published the event to pub/sub,
\* found the key marked, or published a copy to the retry or dead-letter
\* exchange.
HandedOff(h) == h.fanned > 0 \/ h.path = "duplicate" \/ h.out # <<>>

\* The broker holds message id: on one of its queues, or as an
\* unacknowledged delivery of the open channel.
InCustody(id) ==
    \/ InSeq(primary, id) \/ InSeq(retry_queue, id) \/ InSeq(dlq_queue, id)
    \/ /\ consumer.channel = "open"
       /\ \E s \in Outstanding : handler[s].msg.id = id

\* C34: an ack reaches the broker only from a task that has published the
\* event, found its key marked or republished the message, and no reject
\* reaches the broker; a message leaves the broker's custody only by such an
\* ack, so a delivery in flight while stop() runs stays with the broker
\* (back on the primary queue) until a worker hands it on.
C34_AckOnlyAfterHandOff ==
    /\ [](\A s \in Slots :
            /\ handler[s].acks > 0 => HandedOff(handler[s])
            /\ handler[s].path = "rejected" => handler[s].pc = "raised")
    /\ [][\A id \in MsgIds :
            (InCustody(id) /\ ~InCustody(id)') =>
                \E s \in Slots :
                    /\ handler[s].msg.id = id
                    /\ handler[s].pc = "ack" /\ handler'[s].pc = "done"
                    /\ HandedOff(handler[s])]_vars

\* stop() has run to its end while a task was waiting for Redis: the task
\* found the topology cleared, republished nothing, its ack reached no
\* broker, and its message is back on the primary queue.
C34_Witness ==
    \E s \in Slots :
        /\ consumer.pc = "stopped"
        /\ handler[s].pc = "raised" /\ handler[s].path = "failure"
        /\ handler[s].out = <<>> /\ handler[s].acks = 0
        /\ InSeq(primary, handler[s].msg.id)


\* The headers the publisher and the worker have set on a message.
NamedHeaders(message) ==
    [x_retry_count |-> message.headers.x_retry_count,
     last_error |-> message.headers.last_error,
     correlation_id |-> message.headers.correlation_id,
     idempotency_key |-> message.headers.idempotency_key]

\* The message that a step has appended to the primary queue.
Arrived_on_primary == primary'[Len(primary')]

C37_MarkedAfterFanOut ==
    /\ [](\A k \in Keys :
            namespaced(k) \in marked => \E i \in DOMAIN pubsub : pubsub[i].key = k)
    /\ [](\A s \in Slots :
            handler[s].path \in {"failure", "invalid", "duplicate"} => handler[s].marks = 0)
    /\ [][\A k \in Keys :
            (namespaced(k) \notin marked /\ namespaced(k) \in marked') =>
                \E s \in Slots :
                    /\ handler[s].pc = "mark" /\ handler[s].fanned = 1
                    /\ handler[s].msg.body.idempotency_key = k
                    /\ handler'[s].marks = 1
                    /\ marked' = marked \cup {namespaced(k)}]_vars

\* One key is marked after its publish while the fan-out of a message with
\* the other key has failed and has marked nothing.
C37_Witness ==
    \E s, t \in Slots :
        /\ handler[s].path = "success" /\ handler[s].marks = 1
        /\ namespaced(handler[s].msg.body.idempotency_key) \in marked
        /\ handler[t].path = "failure" /\ handler[t].fanned = 0
        /\ namespaced(handler[t].msg.body.idempotency_key) \notin marked


\* C38: a broadcast stays on its event's board: every websocket of its
\* snapshot, so every one it sends to or finds stale, is a websocket of
\* event.board, an event reaches the inbox of a websocket of that board
\* only, and no step of the broadcast, its cleanup included, changes the
\* set of connections of another board.
C38_BoardIsolation ==
    /\ [](bc.pc = "send" =>
            /\ bc.todo \subseteq bc.snapshot /\ bc.stale \subseteq bc.snapshot
            /\ \A c \in bc.snapshot : ws[c].board = bc.board)
    /\ [][/\ \A c \in Conns :
                ws'[c].inbox # ws[c].inbox => (bc.pc = "send" /\ ws[c].board = bc.board)
          /\ (bc.pc = "send" /\ bc' # bc) =>
                \A b \in Boards \ {bc.board} : board_get(boards', b) = board_get(boards, b)]_vars

\* A broadcast on one board has found a websocket stale and is about to
\* clean up while a live, accepted websocket is registered on the other
\* board.
C38_Witness ==
    /\ bc.pc = "send" /\ bc.todo = {} /\ bc.stale # {}
    /\ \E d \in Conns :
            /\ ws[d].board \in Boards \ {bc.board}
            /\ d \in board_get(boards, ws[d].board)
            /\ ws[d].pc = "receive" /\ ws[d].client = "live"


\* C39: every board identifier that is a key of the registry maps to a
\* non-empty set of connections.
C39_NoEmptyBoardEntry == \A board_id \in DOMAIN boards : boards[board_id] # {}


\* The copies of the durable publisher's messages on the three queues.
PublisherCopies ==
    {m \in {primary[i] : i \in DOMAIN primary}
            \cup {retry_queue[i] : i \in DOMAIN retry_queue}
            \cup {dlq_queue[i] : i \in DOMAIN dlq_queue} : m.origin = "publisher"}

\* The x-retry-count of every copy is absent or an integer from 0 to the
\* retry limit.
CountsInRange ==
    \A m \in PublisherCopies :
        m.headers.x_retry_count \in {Absent} \cup {Count(n) : n \in 0 .. MaxRetries}

\* Every copy a task has republished carries the count of its delivery plus
\* one on the retry exchange and the count of its delivery on the
\* dead-letter exchange.
CopiesCountOn ==
    \A s \in Slots :
        handler[s].msg.origin = "publisher" =>
            \A i \in DOMAIN handler[s].out :
                LET attempts == IF handler[s].msg.headers.x_retry_count.tag = "int"
                                THEN handler[s].msg.headers.x_retry_count.n ELSE 0
                    copy == handler[s].out[i]
                IN /\ copy.exchange = "retry" =>
                        copy.msg.headers.x_retry_count = Count(attempts + 1)
                   /\ copy.exchange = "dlq" =>
                        copy.msg.headers.x_retry_count = Count(attempts)

\* C40 as stated: for every message of the durable publisher the counts of
\* its copies are in range, a retry copy counts one more than its delivery
\* and a dead-letter copy the same, and the message is consumed from the
\* primary queue at most MaxRetries + 1 times.
C40_ConsumedWithinRetryLimit ==
    /\ CountsInRange
    /\ CopiesCountOn
    /\ \A id \in MsgIds :
            hist[id].origin = "publisher" => hist[id].consumed <= MaxRetries + 1

\* C40, amended: the counts are in range and the copies count on as stated,
\* and the message is consumed at most MaxRetries + 1 times for as long as
\* the broker has redelivered no unacknowledged delivery to a consumer
\* started after a channel was closed.
C40_ConsumedWithinRetryLimitUntilRedelivery ==
    /\ CountsInRange
    /\ CopiesCountOn
    /\ \A id \in MsgIds :
            (hist[id].origin = "publisher" /\ consumer.restarts = 0) =>
                hist[id].consumed <= MaxRetries + 1

\* A message of the durable publisher has been consumed MaxRetries + 1
\* times by the first worker and its last copy is on the dead-letter queue
\* with the count at the limit.
C40_Witness ==
    /\ consumer.restarts = 0
    /\ \E i \in DOMAIN dlq_queue :
            /\ dlq_queue[i].origin = "publisher"
            /\ dlq_queue[i].headers.x_retry_count = Count(MaxRetries)
            /\ hist[dlq_queue[i].id].consumed = MaxRetries + 1
====
